---- MODULE Spec2Model ----
(***************************************************************************)
(* Daily greeting generator: the pipeline run by main() (main.py), the     *)
(* stage runners of generator/pipeline.py and the Markov word generator of *)
(* generator/jabberwocky.py.                                               *)
(*                                                                         *)
(* Texts are sequences of one-character strings.  A Python value that may  *)
(* be None is None (the empty sequence) or Some(v) (a one-element one).    *)
(***************************************************************************)
EXTENDS Integers, Sequences, FiniteSets

VARIABLES
    pc,          \* position of the run of main()
    stages,      \* history: the stage functions entered so far, in order
    exc,         \* the exception that escaped main(), or "none"
    weather,     \* main's weather
    literature,  \* main's literature
    album,       \* main's album
    attempt,     \* validate_literature: loop variable
    fetched,     \* validate_literature: (literature, text) of this attempt
    evaluation,  \* the oracle response of the running stage
    verdict,     \* validate_literature: value of the test at line 67
    book,        \* the persisted book file (io_manager.save_book)
    albums,      \* select_album: the candidate list
    selection,   \* select_album: the 0-based index
    synthPrompt, \* synthesize_materials: the blocks of the prompt sent
    synthCall,   \* synthesize_materials: "none", "failed" or "answered"
    saved,       \* the greeting file (io_manager.save_greeting)
    nFetch,      \* history: calls of get_random_literature
    nAsk,        \* history: oracle calls made by validate_literature
    nSave,       \* history: calls of save_book
    rejected,    \* history: excerpts that received a negative verdict
    accepted,    \* history: the excerpt that received the affirmative one
    stopped,     \* history: why validate_literature stopped
    afterStop,   \* history: fetches and oracle calls made after it stopped
    fallback,    \* history: select_album used the random fallback
    count,       \* generate_words: the number of words asked for
    wordlist,    \* generate_words: the WordList parsed from the book
    model,       \* generate_words: the Markov model
    distribution,\* generate_words: the cumulative length table
    generated,   \* generate_words: the words collected so far
    word,        \* generate_word: the word being built
    discarded,   \* history: generate_words discarded a colliding word
    greeting,    \* main's greeting (what synthesize_materials returned)
    tts,         \* synthesize_greeting: "none", "ok" or "failed"
    sent,        \* send_to_playback_server: "none", "ok" or "failed"
    selectCount, \* select_words: select_count
    bookLoads,   \* history: calls of io_manager.load_book
    wordAsks,    \* history: oracle calls made by select_words
    albumAsks,   \* history: the prompts select_album sent to the oracle
    artCalls,    \* history: external calls made by analyze_album_art
    albumDetails,\* analyze_album_art: album_details
    maxRetries,  \* send_to_playback_server: max_retries
    posts,       \* history: the outcome of each POST attempt, in order
    sendResult,  \* send_to_playback_server: the value returned
    greetingFile,\* receiver: the stored greeting audio
    songUrlsFile,\* receiver: the stored song-URL list
    request,     \* receiver: the request handled last
    status,      \* receiver: the status of the response sent last
    nRequests,   \* history: requests handled by the receiver
    today,       \* the calendar day
    flagFiles,   \* the flag files of the playback side, by path
    greetingDir, \* the most recent greeting in GREETING_DIR
    playing,     \* check_sunrise.py main(): the greeting being played
    plays,       \* history: the playbacks that succeeded
    scheduleFile,\* receiver: the content of SCHEDULE_FILE
    flagFaults   \* history: a read or a write of PLAYED_FLAG failed

mainVars ==
    <<pc, stages, exc, weather, literature, album, attempt, fetched,
      evaluation, verdict, book, albums, selection, synthPrompt, synthCall,
      saved, nFetch, nAsk, nSave, rejected, accepted, stopped, afterStop,
      fallback>>

forgeVars ==
    <<count, wordlist, model, distribution, generated, word, discarded>>

stageVars ==
    <<greeting, tts, sent, selectCount, bookLoads, wordAsks, albumAsks,
      artCalls, albumDetails>>

deliveryVars ==
    <<maxRetries, posts, sendResult, greetingFile, songUrlsFile, request,
      status, nRequests>>

playbackVars ==
    <<today, flagFiles, greetingDir, playing, plays,
      scheduleFile, flagFaults>>

vars ==
    <<mainVars, forgeVars, stageVars, deliveryVars, playbackVars>>

----------------------------------------------------------------------------
(* Optional values *)

None ==
    <<>>

Some(v) ==
    <<v>>

Get(o) ==
    o[1]

Range(s) ==
    {s[i] : i \in 1..Len(s)}

----------------------------------------------------------------------------
(* Texts *)

LowerLetters ==
    <<"a","b","c","d","e","f","g","h","i","j","k","l","m",
      "n","o","p","q","r","s","t","u","v","w","x","y","z">>

UpperLetters ==
    <<"A","B","C","D","E","F","G","H","I","J","K","L","M",
      "N","O","P","Q","R","S","T","U","V","W","X","Y","Z">>

Digits ==
    <<"0","1","2","3","4","5","6","7","8","9">>

Whitespace ==
    {" ", "\n"}

\* str.upper() on one character: a text, since the upper case of the sharp
\* s (U+00DF) is the two characters SS
UpperChar(c) ==
    IF \E i \in 1..Len(LowerLetters) : LowerLetters[i] = c
    THEN <<UpperLetters[CHOOSE i \in 1..Len(LowerLetters) :
                          LowerLetters[i] = c]>>
    ELSE IF c = "U+00DF" THEN <<"S", "S">>
    ELSE <<c>>

\* str.upper()
RECURSIVE Upper(_)
Upper(s) ==
    IF s = <<>> THEN <<>> ELSE UpperChar(Head(s)) \o Upper(Tail(s))

\* sub in s
Contains(s, sub) ==
    \E i \in 1..(Len(s) - Len(sub) + 1) : SubSeq(s, i, i + Len(sub) - 1) = sub

\* s.find(sub) + 1: the first position where sub starts in s, 0 if none
Find(s, sub) ==
    IF Contains(s, sub)
    THEN CHOOSE i \in 1..(Len(s) - Len(sub) + 1) :
            /\ SubSeq(s, i, i + Len(sub) - 1) = sub
            /\ \A j \in 1..(i - 1) : SubSeq(s, j, j + Len(sub) - 1) # sub
    ELSE 0

\* s.lstrip()
RECURSIVE LStrip(_)
LStrip(s) ==
    IF s # <<>> /\ Head(s) \in Whitespace THEN LStrip(Tail(s)) ELSE s

\* s.rstrip()
RECURSIVE RStrip(_)
RStrip(s) ==
    IF s # <<>> /\ s[Len(s)] \in Whitespace
    THEN RStrip(SubSeq(s, 1, Len(s) - 1))
    ELSE s

\* s.strip()
Strip(s) ==
    RStrip(LStrip(s))

\* s[k:] for a 0-based k >= 0
SliceFrom(s, k) ==
    IF k >= Len(s) THEN <<>> ELSE SubSeq(s, k + 1, Len(s))

IsDigit(c) ==
    \E i \in 1..Len(Digits) : Digits[i] = c

DigitValue(c) ==
    (CHOOSE i \in 1..Len(Digits) : Digits[i] = c) - 1

MarkerVerdictYes ==
    <<"V","E","R","D","I","C","T",":"," ","Y","E","S">>

MarkerVerdict ==
    <<"V","E","R","D","I","C","T",":">>

RespReasonedYes ==
    <<"R","E","A","S","O","N","I","N","G",":"," ","o","k","\n",
      "V","E","R","D","I","C","T",":"," ","y","e","s">>

RespNoVerdict ==
    <<"n","o"," ","v","e","r","d","i","c","t"," ","h","e","r","e">>

RespYesMixed ==
    <<"V","e","r","d","i","c","t",":"," ","Y","e","s">>

RespYesNoSpace ==
    <<"V","E","R","D","I","C","T",":","Y","E","S">>

RespNo ==
    <<"V","E","R","D","I","C","T",":"," ","N","O">>

RespThree ==
    <<"V","E","R","D","I","C","T",":"," ","3">>

RespSeven ==
    <<"V","E","R","D","I","C","T",":"," ","7">>

RespZero ==
    <<"V","E","R","D","I","C","T",":"," ","0">>

RespLowerTwo ==
    <<"v","e","r","d","i","c","t",":"," ","2">>

RespNewlineOne ==
    <<"V","E","R","D","I","C","T",":","\n"," ","1">>

RespSecondMarker ==
    <<"V","E","R","D","I","C","T",":"," ","x"," ","V","E","R","D","I","C","T",":","2">>

RespTwelve ==
    <<"V","E","R","D","I","C","T",":"," ","1","2">>

RespFive ==
    <<"V","E","R","D","I","C","T",":"," ","5">>

RespEmpty ==
    <<>>

\* The texts the oracle may return (send_ollama_request returns any str).
Responses ==
    {RespReasonedYes, RespNoVerdict, MarkerVerdictYes, RespYesMixed,
     RespYesNoSpace, RespNo, RespThree, RespSeven, RespZero, RespLowerTwo,
     RespNewlineOne, RespSecondMarker, RespTwelve, RespFive, RespEmpty}

\* send_ollama_request: the response text, or None on any failure
OracleResults ==
    {None} \cup {Some(r) : r \in Responses}

----------------------------------------------------------------------------
(* Program constants *)

\* main.py line 65: validate_literature(io_manager, max_attempts=5)
MaxAttempts ==
    5

\* pipeline.py line 161: get_navidrome_albums(count=5)
AlbumCount ==
    5

\* pipeline.py lines 207 and 212: random.randint(0, 4)
FallbackHigh ==
    4

----------------------------------------------------------------------------
(* External collaborators (generator/data_sources.py) *)

\* get_weather_data(): the weather dict, or None
WeatherResults ==
    {None, Some("forecast")}

\* The keys of the dict get_random_literature returns.
LiteratureKeys ==
    {"title", "author", "excerpt"}

\* get_random_literature(): (None, None), or (literature, text).  The k-th
\* fetch returns excerpt k of book k, so that excerpts can be told apart.
LiteratureResults(k) ==
    {None,
     Some([literature |-> [excerpt |-> k, keys |-> LiteratureKeys,
                           jabberwocky |-> <<>>],
           text |-> k])}

\* get_navidrome_albums(count): None, or a list of at most count albums
\* (fewer when the library holds fewer), each with these keys.
AlbumKeys ==
    {"id", "name", "artist", "year", "genres"}

AlbumList(n) ==
    [i \in 1..n |-> [id |-> i, keys |-> AlbumKeys, songs |-> None,
                     coverart |-> None]]

AlbumResults ==
    {None} \cup {Some(AlbumList(n)) : n \in 0..AlbumCount}

\* get_album_details(id): None, or a dict with 'songs' and 'coverart'
\* (coverart None when the album has no cover art).
DetailsResults ==
    {None,
     Some([songs |-> Some("tracks"), coverart |-> None]),
     Some([songs |-> Some("tracks"), coverart |-> Some("image")])}

\* send_ollama_image_request: the description, or None on failure
VisionResults ==
    {None, Some("description")}

----------------------------------------------------------------------------
(* Decision parsing *)

\* pipeline.py line 67: "VERDICT: YES" in evaluation.upper()
LitVerdict_NoUpper(text) ==
    Contains(text, MarkerVerdictYes)

LitVerdict(text) ==
    Contains(Upper(text), MarkerVerdictYes)

\* \s* from position j: the first position that holds no whitespace
SkipWhitespace(s, j) ==
    CHOOSE k \in j..(Len(s) + 1) :
        /\ \A m \in j..(k - 1) : s[m] \in Whitespace
        /\ k = Len(s) + 1 \/ s[k] \notin Whitespace

\* (\d+) from position k, greedy: the last position of the run of digits
DigitsEnd(s, k) ==
    CHOOSE m \in k..Len(s) :
        /\ \A q \in k..m : IsDigit(s[q])
        /\ m = Len(s) \/ ~IsDigit(s[m + 1])

\* int() of the digits s[k..m]
RECURSIVE IntOf(_, _, _)
IntOf(s, k, m) ==
    IF m < k THEN 0 ELSE IntOf(s, k, m - 1) * 10 + DigitValue(s[m])

\* The positions where r'VERDICT:\s*(\d+)' matches
VerdictNumberStarts(s) ==
    {i \in 1..(Len(s) - Len(MarkerVerdict) + 1) :
        /\ SubSeq(s, i, i + Len(MarkerVerdict) - 1) = MarkerVerdict
        /\ LET k == SkipWhitespace(s, i + Len(MarkerVerdict))
           IN  k <= Len(s) /\ IsDigit(s[k])}

\* pipeline.py line 202: re.search(r'VERDICT:\s*(\d+)', evaluation), and
\* int(match.group(1)) of the leftmost match; None when nothing matches
VerdictNumber(s) ==
    IF VerdictNumberStarts(s) = {} THEN None
    ELSE LET i == CHOOSE i \in VerdictNumberStarts(s) :
                      \A j \in VerdictNumberStarts(s) : i <= j
             k == SkipWhitespace(s, i + Len(MarkerVerdict))
         IN  Some(IntOf(s, k, DigitsEnd(s, k)))

\* pipeline.py lines 203-205: the match gives an index inside the list
SelectionValid(s, n) ==
    /\ VerdictNumber(s) # None
    /\ Get(VerdictNumber(s)) - 1 >= 0
    /\ Get(VerdictNumber(s)) - 1 < n

\* pipeline.py lines 207 and 212: random.randint(0, 4), both ends included
FallbackIndexes ==
    0..FallbackHigh

----------------------------------------------------------------------------
(* generator/formatters.py and synthesize_materials: what raises *)

\* format_album, lines 86-89: album_data['songs'] is looked up and iterated
\* by enumerate(); a missing key or a None value raises.
FormatAlbumError(a) ==
    IF "songs" \notin a.keys THEN "KeyError"
    ELSE IF a.songs = None THEN "TypeError"
    ELSE IF "coverart" \notin a.keys THEN "KeyError"
    ELSE "none"

\* synthesize_materials, line 348: literature['jabberwocky'] is evaluated
\* whatever the inputs are; None is not subscriptable, a missing key raises.
JabberwockyLookupError(l) ==
    IF l = None THEN "TypeError"
    ELSE IF "jabberwocky" \notin Get(l).keys THEN "KeyError"
    ELSE "none"

\* synthesize_materials, lines 313-353: the exception raised while the
\* prompt is built, or "none"
SynthesisError(w, l, a) ==
    IF a # None /\ FormatAlbumError(Get(a)) # "none"
    THEN FormatAlbumError(Get(a))
    ELSE JabberwockyLookupError(l)

\* synthesize_materials, lines 316-353: the conditional parts of the
\* prompt: the source blocks and the listener statements (lines 316-337),
\* and the nonsense-word block (lines 348-353)
SynthesisBlocks(w, l, a) ==
    (IF w # None THEN {"weather", "weather listener"} ELSE {})
    \cup (IF l # None THEN {"literature", "literature listener"} ELSE {})
    \cup (IF a # None THEN {"album", "album listener"} ELSE {})
    \cup (IF l # None /\ Get(l).jabberwocky # <<>> THEN {"jabberwocky"} ELSE {})

----------------------------------------------------------------------------
(* synthesize_materials: the greeting taken from the response *)

MarkerGreeting ==
    <<"G","R","E","E","T","I","N","G",":">>

\* pipeline.py lines 387-388: a text that starts and ends with a double
\* quote loses its first and last character
Unquote(s) ==
    IF s # <<>> /\ Head(s) = "\"" /\ s[Len(s)] = "\""
    THEN SubSeq(s, 2, Len(s) - 1)
    ELSE s

\* pipeline.py lines 382-392: the marker is looked for in greeting.upper(),
\* and the position found there is used to cut greeting itself
ExtractGreeting(g) ==
    IF Contains(Upper(g), MarkerGreeting)
    THEN Unquote(Strip(SliceFrom(g, (Find(Upper(g), MarkerGreeting) - 1)
                                      + Len(MarkerGreeting))))
    ELSE Strip(g)

\* Responses of the synthesis oracle
\* 'REASONING: x\nGREETING: "Hi"\n'
SynQuoted ==
    <<"R","E","A","S","O","N","I","N","G",":"," ","x","\n",
      "G","R","E","E","T","I","N","G",":"," ","\"","H","i","\"","\n">>

\* 'greeting: hi'
SynLower ==
    <<"g","r","e","e","t","i","n","g",":"," ","h","i">>

\* ' hi\n'
SynNoMarkerPadded ==
    <<" ","h","i","\n">>

\* 'hi'
SynNoMarker ==
    <<"h","i">>

\* 'GREETING:'
SynNothingAfter ==
    <<"G","R","E","E","T","I","N","G",":">>

\* 'GREETING: a GREETING: b'
SynTwoMarkers ==
    <<"G","R","E","E","T","I","N","G",":"," ","a"," ",
      "G","R","E","E","T","I","N","G",":"," ","b">>

\* 'GREETING: "a" b'
SynQuoteInside ==
    <<"G","R","E","E","T","I","N","G",":"," ","\"","a","\""," ","b">>

\* 'Gru(U+00DF) GREETING:hi', U+00DF the sharp s
SynSharpS ==
    <<"G","r","u","U+00DF"," ","G","R","E","E","T","I","N","G",":","h","i">>

SynthResponses ==
    {SynQuoted, SynLower, SynNoMarkerPadded, SynNoMarker, SynNothingAfter,
     SynTwoMarkers, SynQuoteInside, SynSharpS, RespEmpty}

\* send_ollama_request during synthesis: the response text, or None
SynthOracleResults ==
    {None} \cup {Some(r) : r \in SynthResponses}

----------------------------------------------------------------------------
(* The playback side before anything was sent to it *)

\* Nothing was sent, the receiver stores nothing
DeliveryIdle ==
    /\ maxRetries = 0
    /\ posts = <<>>
    /\ sendResult = None
    /\ greetingFile = None
    /\ songUrlsFile = None
    /\ request = None
    /\ status = 0
    /\ nRequests = 0

\* check_sunrise.py line 24: PLAYED_FLAG
PLAYED_FLAG ==
    "/home/oscar/daily-greeting/data/.played_today"

\* playback/receive_greeting.py line 124: SCRIPT_DIR / "data/.played",
\* with the receiver installed in /home/oscar/daily-greeting
played_flag ==
    "/home/oscar/daily-greeting/data/.played"

\* The flag files the playback side reads, writes or deletes
FlagPaths ==
    {PLAYED_FLAG, played_flag}

\* No greeting is stored and none was played
PlaybackIdle ==
    /\ today = 1
    /\ flagFiles = [p \in FlagPaths |-> None]
    /\ greetingDir = None
    /\ playing = None
    /\ plays = <<>>
    /\ scheduleFile = None
    /\ flagFaults = FALSE

----------------------------------------------------------------------------
(* main(): the run *)

MainInit ==
    /\ pc = "weather"
    /\ stages = <<>>
    /\ exc = "none"
    /\ weather = None
    /\ literature = None
    /\ album = None
    /\ attempt = 0
    /\ fetched = None
    /\ evaluation = None
    /\ verdict = None
    /\ book = None
    /\ albums = None
    /\ selection = None
    /\ synthPrompt = None
    /\ synthCall = "none"
    /\ saved = None
    /\ nFetch = 0
    /\ nAsk = 0
    /\ nSave = 0
    /\ rejected = {}
    /\ accepted = None
    /\ stopped = "no"
    /\ afterStop = 0
    /\ fallback = FALSE
    /\ count = 0
    /\ wordlist = None
    /\ model = None
    /\ distribution = None
    /\ generated = <<>>
    /\ word = <<>>
    /\ discarded = FALSE
    /\ greeting = None
    /\ tts = "none"
    /\ sent = "none"
    /\ selectCount = 0
    /\ bookLoads = 0
    /\ wordAsks = 0
    /\ albumAsks = <<>>
    /\ artCalls = <<>>
    /\ albumDetails = None
    /\ DeliveryIdle
    /\ PlaybackIdle

\* main.py lines 53-61: stage 1, get_weather_data()
Weather ==
    /\ pc = "weather"
    /\ \E w \in WeatherResults : weather' = w
    /\ stages' = Append(stages, "weather")
    /\ pc' = "validate_literature"
    /\ UNCHANGED <<exc, literature, album, attempt, fetched, evaluation,
                   verdict, book, albums, selection, synthPrompt,
                   synthCall, saved, nFetch, nAsk, nSave, rejected,
                   accepted, stopped, afterStop, fallback, count, wordlist,
                   model, distribution, generated, word, discarded,
                   greeting, tts, sent, selectCount, bookLoads, wordAsks,
                   albumAsks, artCalls, albumDetails, maxRetries, posts,
                   sendResult, greetingFile, songUrlsFile, request, status,
                   nRequests, today, flagFiles, greetingDir, playing,
                   plays, scheduleFile, flagFaults>>

\* main.py line 65 and pipeline.py lines 39-41: validate_literature is
\* entered and its loop starts at attempt 1
VL_Start ==
    /\ pc = "validate_literature"
    /\ stages' = Append(stages, "literature")
    /\ attempt' = 1
    /\ pc' = "vl_fetch"
    /\ UNCHANGED <<exc, weather, literature, album, fetched, evaluation,
                   verdict, book, albums, selection, synthPrompt,
                   synthCall, saved, nFetch, nAsk, nSave, rejected,
                   accepted, stopped, afterStop, fallback, count, wordlist,
                   model, distribution, generated, word, discarded,
                   greeting, tts, sent, selectCount, bookLoads, wordAsks,
                   albumAsks, artCalls, albumDetails, maxRetries, posts,
                   sendResult, greetingFile, songUrlsFile, request, status,
                   nRequests, today, flagFiles, greetingDir, playing,
                   plays, scheduleFile, flagFaults>>

\* pipeline.py line 41: for attempt in range(1, max_attempts + 1)
VL_InRange_OffByOne(a) ==
    a <= MaxAttempts + 1

VL_InRange(a) ==
    a <= MaxAttempts

\* pipeline.py lines 41-47: one fetch; a failed fetch uses up the attempt
VL_Fetch ==
    /\ pc = "vl_fetch"
    /\ VL_InRange(attempt)
    /\ \E f \in LiteratureResults(attempt) :
          /\ fetched' = f
          /\ IF f = None
             THEN /\ attempt' = attempt + 1
                  /\ pc' = "vl_fetch"
             ELSE /\ attempt' = attempt
                  /\ pc' = "vl_ask"
    /\ nFetch' = nFetch + 1
    /\ afterStop' = IF stopped # "no" THEN afterStop + 1 ELSE afterStop
    /\ UNCHANGED <<stages, exc, weather, literature, album, evaluation,
                   verdict, book, albums, selection, synthPrompt,
                   synthCall, saved, nAsk, nSave, rejected, accepted,
                   stopped, fallback, count, wordlist, model, distribution,
                   generated, word, discarded, greeting, tts, sent,
                   selectCount, bookLoads, wordAsks, albumAsks, artCalls,
                   albumDetails, maxRetries, posts, sendResult,
                   greetingFile, songUrlsFile, request, status, nRequests,
                   today, flagFiles, greetingDir, playing, plays,
                   scheduleFile, flagFaults>>

\* pipeline.py lines 61-63: what a failed oracle call leads to
VL_OnOracleFailure_Retry ==
    "vl_next"

VL_OnOracleFailure ==
    "vl_return_none"

\* pipeline.py lines 49-63: the evaluation prompt is sent to the oracle
VL_Ask ==
    /\ pc = "vl_ask"
    /\ \E r \in OracleResults :
          /\ evaluation' = r
          /\ pc' = IF r = None THEN VL_OnOracleFailure ELSE "vl_verdict"
          /\ stopped' = IF r = None THEN "oracle_failed" ELSE stopped
    /\ nAsk' = nAsk + 1
    /\ afterStop' = IF stopped # "no" THEN afterStop + 1 ELSE afterStop
    /\ UNCHANGED <<stages, exc, weather, literature, album, attempt,
                   fetched, verdict, book, albums, selection, synthPrompt,
                   synthCall, saved, nFetch, nSave, rejected, accepted,
                   fallback, count, wordlist, model, distribution,
                   generated, word, discarded, greeting, tts, sent,
                   selectCount, bookLoads, wordAsks, albumAsks, artCalls,
                   albumDetails, maxRetries, posts, sendResult,
                   greetingFile, songUrlsFile, request, status, nRequests,
                   today, flagFiles, greetingDir, playing, plays,
                   scheduleFile, flagFaults>>

\* pipeline.py line 67: the verdict is read off the response
VL_Verdict ==
    /\ pc = "vl_verdict"
    /\ verdict' = Some(LitVerdict(Get(evaluation)))
    /\ pc' = IF LitVerdict(Get(evaluation)) THEN "vl_accept" ELSE "vl_next"
    /\ stopped' = IF LitVerdict(Get(evaluation)) /\ stopped = "no"
                  THEN "accepted" ELSE stopped
    /\ rejected' = IF LitVerdict(Get(evaluation)) THEN rejected
                   ELSE rejected \cup {Get(fetched).literature.excerpt}
    /\ accepted' = IF LitVerdict(Get(evaluation)) /\ accepted = None
                   THEN Some(Get(fetched).literature.excerpt) ELSE accepted
    /\ UNCHANGED <<stages, exc, weather, literature, album, attempt,
                   fetched, evaluation, book, albums, selection,
                   synthPrompt, synthCall, saved, nFetch, nAsk, nSave,
                   afterStop, fallback, count, wordlist, model,
                   distribution, generated, word, discarded, greeting, tts,
                   sent, selectCount, bookLoads, wordAsks, albumAsks,
                   artCalls, albumDetails, maxRetries, posts, sendResult,
                   greetingFile, songUrlsFile, request, status, nRequests,
                   today, flagFiles, greetingDir, playing, plays,
                   scheduleFile, flagFaults>>

\* A save that leaves the stored book as it was
SaveBook_KeepsOld(old, text) ==
    old

\* io_manager.py lines 161-172: save_book(text) writes the text to the
\* book file of the day, replacing what the file held
SaveBook(old, text) ==
    Some(text)

\* pipeline.py lines 68-70 and main.py lines 65-68: save_book(text), and
\* the literature of this attempt is returned to main
VL_Accept ==
    /\ pc = "vl_accept"
    /\ book' = SaveBook(book, Get(fetched).text)
    /\ nSave' = nSave + 1
    /\ literature' = Some(Get(fetched).literature)
    /\ pc' = "select_album"
    /\ attempt' = 0
    /\ fetched' = None
    /\ evaluation' = None
    /\ verdict' = None
    /\ UNCHANGED <<stages, exc, weather, album, albums, selection,
                   synthPrompt, synthCall, saved, nFetch, nAsk, rejected,
                   accepted, stopped, afterStop, fallback, count, wordlist,
                   model, distribution, generated, word, discarded,
                   greeting, tts, sent, selectCount, bookLoads, wordAsks,
                   albumAsks, artCalls, albumDetails, maxRetries, posts,
                   sendResult, greetingFile, songUrlsFile, request, status,
                   nRequests, today, flagFiles, greetingDir, playing,
                   plays, scheduleFile, flagFaults>>

\* pipeline.py lines 71-72 and 41: the excerpt is dropped, next attempt
VL_Next ==
    /\ pc = "vl_next"
    /\ attempt' = attempt + 1
    /\ fetched' = None
    /\ evaluation' = None
    /\ verdict' = None
    /\ pc' = "vl_fetch"
    /\ UNCHANGED <<stages, exc, weather, literature, album, book, albums,
                   selection, synthPrompt, synthCall, saved, nFetch, nAsk,
                   nSave, rejected, accepted, stopped, afterStop, fallback,
                   count, wordlist, model, distribution, generated, word,
                   discarded, greeting, tts, sent, selectCount, bookLoads,
                   wordAsks, albumAsks, artCalls, albumDetails, maxRetries,
                   posts, sendResult, greetingFile, songUrlsFile, request,
                   status, nRequests, today, flagFiles, greetingDir,
                   playing, plays, scheduleFile, flagFaults>>

\* pipeline.py lines 61-63 (the oracle call failed) and 74-75 (the attempts
\* are used up), main.py lines 65-68: None is returned to main
VL_ReturnNone ==
    /\ IF pc = "vl_fetch" THEN ~VL_InRange(attempt)
       ELSE pc = "vl_return_none"
    /\ literature' = None
    /\ stopped' = IF stopped = "no" THEN "exhausted" ELSE stopped
    /\ pc' = "select_album"
    /\ attempt' = 0
    /\ fetched' = None
    /\ evaluation' = None
    /\ verdict' = None
    /\ UNCHANGED <<stages, exc, weather, album, book, albums, selection,
                   synthPrompt, synthCall, saved, nFetch, nAsk, nSave,
                   rejected, accepted, afterStop, fallback, count,
                   wordlist, model, distribution, generated, word,
                   discarded, greeting, tts, sent, selectCount, bookLoads,
                   wordAsks, albumAsks, artCalls, albumDetails, maxRetries,
                   posts, sendResult, greetingFile, songUrlsFile, request,
                   status, nRequests, today, flagFiles, greetingDir,
                   playing, plays, scheduleFile, flagFaults>>

\* main.py line 72 and pipeline.py lines 159-166: select_album is entered
\* and fetches the candidates; None or an empty list ends the stage
SA_Fetch ==
    /\ pc = "select_album"
    /\ stages' = Append(stages, "album")
    /\ \E r \in AlbumResults :
          IF r = None \/ r = Some(<<>>)
          THEN /\ albums' = None
               /\ album' = None
               /\ pc' = "analyze_album_art"
          ELSE /\ albums' = r
               /\ album' = album
               /\ pc' = "sa_ask"
    /\ UNCHANGED <<exc, weather, literature, attempt, fetched, evaluation,
                   verdict, book, selection, synthPrompt, synthCall, saved,
                   nFetch, nAsk, nSave, rejected, accepted, stopped,
                   afterStop, fallback, count, wordlist, model,
                   distribution, generated, word, discarded, greeting, tts,
                   sent, selectCount, bookLoads, wordAsks, albumAsks,
                   artCalls, albumDetails, maxRetries, posts, sendResult,
                   greetingFile, songUrlsFile, request, status, nRequests,
                   today, flagFiles, greetingDir, playing, plays,
                   scheduleFile, flagFaults>>

\* pipeline.py lines 171-190: the prompt pairs the albums with the
\* literature when there is literature, and does without it otherwise
SA_PromptKind_AlwaysPairing(l) ==
    "pairing"

SA_PromptKind(l) ==
    IF l # None THEN "pairing" ELSE "free"

\* pipeline.py lines 168-199: one oracle call; None is returned if it fails
SA_Ask ==
    /\ pc = "sa_ask"
    /\ albumAsks' = Append(albumAsks, SA_PromptKind(literature))
    /\ \E r \in OracleResults :
          /\ evaluation' = r
          /\ IF r = None
             THEN /\ album' = None
                  /\ albums' = None
                  /\ pc' = "analyze_album_art"
             ELSE /\ album' = album
                  /\ albums' = albums
                  /\ pc' = "sa_parse"
    /\ UNCHANGED <<stages, exc, weather, literature, attempt, fetched,
                   verdict, book, selection, synthPrompt, synthCall, saved,
                   nFetch, nAsk, nSave, rejected, accepted, stopped,
                   afterStop, fallback, count, wordlist, model,
                   distribution, generated, word, discarded, greeting, tts,
                   sent, selectCount, bookLoads, wordAsks, artCalls,
                   albumDetails, maxRetries, posts, sendResult,
                   greetingFile, songUrlsFile, request, status, nRequests,
                   today, flagFiles, greetingDir, playing, plays,
                   scheduleFile, flagFaults>>

\* pipeline.py lines 201-213: the index the response gives, or the random
\* fallback index
SA_Parse ==
    /\ pc = "sa_parse"
    /\ \E r \in FallbackIndexes :
          selection' = IF SelectionValid(Get(evaluation), Len(Get(albums)))
                       THEN Some(Get(VerdictNumber(Get(evaluation))) - 1)
                       ELSE Some(r)
    /\ fallback' = ~SelectionValid(Get(evaluation), Len(Get(albums)))
    /\ pc' = "sa_return"
    /\ UNCHANGED <<stages, exc, weather, literature, album, attempt,
                   fetched, evaluation, verdict, book, albums, synthPrompt,
                   synthCall, saved, nFetch, nAsk, nSave, rejected,
                   accepted, stopped, afterStop, count, wordlist, model,
                   distribution, generated, word, discarded, greeting, tts,
                   sent, selectCount, bookLoads, wordAsks, albumAsks,
                   artCalls, albumDetails, maxRetries, posts, sendResult,
                   greetingFile, songUrlsFile, request, status, nRequests,
                   today, flagFiles, greetingDir, playing, plays,
                   scheduleFile, flagFaults>>

\* pipeline.py line 215 and main.py lines 113-115: return albums[selection];
\* an index past the end of the list raises IndexError, which main re-raises
SA_Return ==
    /\ pc = "sa_return"
    /\ IF Get(selection) < Len(Get(albums))
       THEN /\ album' = Some(Get(albums)[Get(selection) + 1])
            /\ pc' = "analyze_album_art"
            /\ exc' = exc
            /\ evaluation' = None
       ELSE /\ album' = album
            /\ pc' = "raised"
            /\ exc' = "IndexError"
            /\ evaluation' = evaluation
    /\ UNCHANGED <<stages, weather, literature, attempt, fetched, verdict,
                   book, albums, selection, synthPrompt, synthCall, saved,
                   nFetch, nAsk, nSave, rejected, accepted, stopped,
                   afterStop, fallback, count, wordlist, model,
                   distribution, generated, word, discarded, greeting, tts,
                   sent, selectCount, bookLoads, wordAsks, albumAsks,
                   artCalls, albumDetails, maxRetries, posts, sendResult,
                   greetingFile, songUrlsFile, request, status, nRequests,
                   today, flagFiles, greetingDir, playing, plays,
                   scheduleFile, flagFaults>>

\* pipeline.py line 245: the details carry cover art
AA_HasCoverArt_Always(d) ==
    TRUE

AA_HasCoverArt(d) ==
    Get(d).coverart # None

\* main.py line 79 and pipeline.py lines 227-248: analyze_album_art is
\* entered; without an album it returns at once, otherwise it fetches the
\* details and records the tracks on the album
AA_Details ==
    /\ pc = "analyze_album_art"
    /\ stages' = Append(stages, "art")
    /\ IF album = None
       THEN /\ album' = album
            /\ albumDetails' = albumDetails
            /\ artCalls' = artCalls
            /\ pc' = "synthesize"
       ELSE \E d \in DetailsResults :
               /\ albumDetails' = d
               /\ artCalls' = Append(artCalls, "details")
               /\ IF d = None
                  THEN /\ album' = Some([Get(album) EXCEPT
                                           !.keys = @ \cup {"songs", "coverart"},
                                           !.songs = None,
                                           !.coverart = None])
                       /\ pc' = "synthesize"
                  ELSE IF ~AA_HasCoverArt(d)
                  THEN /\ album' = Some([Get(album) EXCEPT
                                           !.keys = @ \cup {"songs", "coverart"},
                                           !.songs = Get(d).songs,
                                           !.coverart = None])
                       /\ pc' = "synthesize"
                  ELSE /\ album' = Some([Get(album) EXCEPT
                                           !.keys = @ \cup {"songs"},
                                           !.songs = Get(d).songs])
                       /\ pc' = "aa_vision"
    /\ UNCHANGED <<exc, weather, literature, attempt, fetched, evaluation,
                   verdict, book, albums, selection, synthPrompt,
                   synthCall, saved, nFetch, nAsk, nSave, rejected,
                   accepted, stopped, afterStop, fallback, count, wordlist,
                   model, distribution, generated, word, discarded,
                   greeting, tts, sent, selectCount, bookLoads, wordAsks,
                   albumAsks, maxRetries, posts, sendResult, greetingFile,
                   songUrlsFile, request, status, nRequests, today,
                   flagFiles, greetingDir, playing, plays, scheduleFile,
                   flagFaults>>

\* pipeline.py lines 250-267: one vision-oracle call; a failed call records
\* a None description
AA_Vision ==
    /\ pc = "aa_vision"
    /\ artCalls' = Append(artCalls, "vision")
    /\ \E r \in VisionResults :
          album' = Some([Get(album) EXCEPT
                           !.keys = @ \cup {"coverart"},
                           !.coverart = r])
    /\ pc' = "synthesize"
    /\ UNCHANGED <<stages, exc, weather, literature, attempt, fetched,
                   evaluation, verdict, book, albums, selection,
                   synthPrompt, synthCall, saved, nFetch, nAsk, nSave,
                   rejected, accepted, stopped, afterStop, fallback, count,
                   wordlist, model, distribution, generated, word,
                   discarded, greeting, tts, sent, selectCount, bookLoads,
                   wordAsks, albumAsks, albumDetails, maxRetries, posts,
                   sendResult, greetingFile, songUrlsFile, request, status,
                   nRequests, today, flagFiles, greetingDir, playing,
                   plays, scheduleFile, flagFaults>>

\* main.py line 84 and pipeline.py lines 306-372, main.py lines 113-115:
\* synthesize_materials is entered and builds the prompt; an exception
\* raised while building it escapes main
SM_Build ==
    /\ pc = "synthesize"
    /\ stages' = Append(stages, "synthesis")
    /\ IF SynthesisError(weather, literature, album) # "none"
       THEN /\ exc' = SynthesisError(weather, literature, album)
            /\ pc' = "raised"
            /\ synthPrompt' = synthPrompt
       ELSE /\ exc' = exc
            /\ pc' = "sm_ask"
            /\ synthPrompt' = Some(SynthesisBlocks(weather, literature, album))
    /\ UNCHANGED <<weather, literature, album, attempt, fetched,
                   evaluation, verdict, book, albums, selection, synthCall,
                   saved, nFetch, nAsk, nSave, rejected, accepted, stopped,
                   afterStop, fallback, count, wordlist, model,
                   distribution, generated, word, discarded, greeting, tts,
                   sent, selectCount, bookLoads, wordAsks, albumAsks,
                   artCalls, albumDetails, maxRetries, posts, sendResult,
                   greetingFile, songUrlsFile, request, status, nRequests,
                   today, flagFiles, greetingDir, playing, plays,
                   scheduleFile, flagFaults>>

MainNext ==
    \/ Weather
    \/ VL_Start
    \/ VL_Fetch
    \/ VL_Ask
    \/ VL_Verdict
    \/ VL_Accept
    \/ VL_Next
    \/ VL_ReturnNone
    \/ SA_Fetch
    \/ SA_Ask
    \/ SA_Parse
    \/ SA_Return
    \/ AA_Details
    \/ AA_Vision
    \/ SM_Build

Spec ==
    MainInit /\ [][MainNext]_vars

----------------------------------------------------------------------------
(* Claims about the run of main() *)

\* Names of the stage functions, in the order of the specification
StageOrder ==
    <<"weather", "literature", "words", "album", "art", "synthesis">>

\* C1: a run that has entered the synthesis stage, whatever the other
\* stages gave, lets no exception escape, ends without a greeting only if
\* the synthesis oracle call failed, and has saved a non-null greeting when
\* that call returned text.
C1_AbortsOnlyWhenSynthesisOracleFails ==
    "synthesis" \in Range(stages) =>
        /\ exc = "none"
        /\ pc \in {"raised", "aborted"} => synthCall = "failed"
        /\ (synthCall = "answered" /\ pc = "done") => saved # None

\* C2: with weather, literature and album all null the synthesis stage
\* builds a prompt and sends it, and the prompt holds none of the weather,
\* literature and album blocks.
C2_AllNullPromptIsSent ==
    ( /\ "synthesis" \in Range(stages)
      /\ weather = None /\ literature = None /\ album = None )
    => /\ synthPrompt # None
       /\ Get(synthPrompt) \cap {"weather", "literature", "album"} = {}

\* C3: a run that reaches synthesis has entered the stages in the order
\* weather, literature validation, word selection, album selection,
\* album-art analysis, synthesis, each exactly once.
C3_StagesInDependencyOrder ==
    "synthesis" \in Range(stages) => stages = StageOrder

\* C7: validate_literature makes at most max_attempts fetches and at most
\* max_attempts oracle calls, none after the first affirmative verdict, and
\* the excerpt it returns is the one that verdict was given for, never one
\* that was rejected.
C7_ValidationWithinBudget ==
    /\ nFetch <= MaxAttempts
    /\ nAsk <= MaxAttempts
    /\ stopped = "accepted" => afterStop = 0
    /\ literature # None =>
          /\ stopped = "accepted"
          /\ accepted = Some(Get(literature).excerpt)
          /\ Get(literature).excerpt \notin rejected

\* C7 witness: an excerpt was accepted at the last attempt of the budget,
\* after a failed fetch and a rejected excerpt, and returned to main.
C7_Witness ==
    /\ literature # None
    /\ nFetch = MaxAttempts
    /\ nAsk < nFetch
    /\ rejected # {}

\* C8: once an oracle call has failed during literature validation, no
\* further fetch or oracle call is made, nothing is persisted, null is
\* returned, and the run goes on to the album selection stage.
C8_OracleFailureEndsValidation ==
    stopped = "oracle_failed" =>
        /\ afterStop = 0
        /\ nSave = 0
        /\ book = None
        /\ literature = None
        /\ pc \in {"vl_return_none", "select_album"}
              \/ "album" \in Range(stages)

\* C8 witness: the oracle call failed with attempts left, and the run has
\* entered album selection.
C8_Witness ==
    /\ stopped = "oracle_failed"
    /\ nFetch < MaxAttempts
    /\ "album" \in Range(stages)

\* C9: select_album never raises, and the index it returns with lies inside
\* the candidate list: k-1 when the response holds the marker followed by
\* an integer k with 1 <= k <= n, a fallback index inside [0, n) otherwise.
C9_SelectAlbumReturnsCandidate ==
    /\ exc # "IndexError"
    /\ pc = "sa_return" =>
          /\ Get(selection) \in 0..(Len(Get(albums)) - 1)
          /\ SelectionValid(Get(evaluation), Len(Get(albums)))
                => Get(selection) = Get(VerdictNumber(Get(evaluation))) - 1

\* One character of a text is the letter u of the marker, in either case
SameLetter(c, u) ==
    \/ c = u
    \/ \E k \in 1..Len(LowerLetters) :
          LowerLetters[k] = c /\ UpperLetters[k] = u

\* The text holds 'VERDICT: YES', letters compared without regard to case
HasVerdictYes(s) ==
    \E i \in 1..(Len(s) - Len(MarkerVerdictYes) + 1) :
        \A j \in 1..Len(MarkerVerdictYes) :
            SameLetter(s[i + j - 1], MarkerVerdictYes[j])

----------------------------------------------------------------------------
(* generator/jabberwocky.py: parse_words *)

\* jabberwocky.py lines 16-18
INITIATOR ==
    "#"

TERMINATOR ==
    "$"

CONTEXT_SIZE ==
    2

\* Characters outside ASCII are written by their code point.
\* unicodedata.normalize('NFKD', c) of one character
DecomposeChar(c) ==
    IF c = "U+00E9" THEN <<"e", "U+0301">>
    ELSE IF c = "U+00C9" THEN <<"E", "U+0301">>
    ELSE <<c>>

\* jabberwocky.py line 43: unicodedata.normalize('NFKD', text)
RECURSIVE NFKD(_)
NFKD(s) ==
    IF s = <<>> THEN <<>> ELSE DecomposeChar(Head(s)) \o NFKD(Tail(s))

\* str.lower() on one character
LowerChar(c) ==
    IF \E i \in 1..Len(UpperLetters) : UpperLetters[i] = c
    THEN LowerLetters[CHOOSE i \in 1..Len(UpperLetters) : UpperLetters[i] = c]
    ELSE c

\* jabberwocky.py lines 11-14 and 45: text.translate(UNICODE_FIXES)
FixChar(c) ==
    IF c \in {"U+2018", "U+2019"} THEN "'" ELSE c

\* jabberwocky.py lines 44-45: text.lower().translate(UNICODE_FIXES)
LowerAndFix(s) ==
    [i \in 1..Len(s) |-> FixChar(LowerChar(s[i]))]

\* The first position at or after i that holds no hyphen
HyphenRunEnd(s, i) ==
    CHOOSE k \in i..(Len(s) + 1) :
        /\ \A m \in i..(k - 1) : s[m] = "-"
        /\ k = Len(s) + 1 \/ s[k] # "-"

\* jabberwocky.py line 46: re.sub(r'-{2,}', ' ', text), from position i
RECURSIVE CollapseHyphens(_, _)
CollapseHyphens(s, i) ==
    IF i > Len(s) THEN <<>>
    ELSE IF HyphenRunEnd(s, i) - i >= 2
         THEN <<" ">> \o CollapseHyphens(s, HyphenRunEnd(s, i))
         ELSE <<s[i]>> \o CollapseHyphens(s, i + 1)

\* jabberwocky.py lines 52-55: the characters that are kept
\* (category L*, category Mn, apostrophe, hyphen)
IsKept(c) ==
    \/ c \in Range(LowerLetters) \cup Range(UpperLetters)
    \/ c = "U+0301"
    \/ c \in {"'", "-"}

\* jabberwocky.py lines 50-60: every other character becomes a space
StripSpecial(s) ==
    [i \in 1..Len(s) |-> IF IsKept(s[i]) THEN s[i] ELSE " "]

\* jabberwocky.py line 64: text.split()
RECURSIVE SplitWords(_, _, _)
SplitWords(s, cur, acc) ==
    IF s = <<>> THEN (IF cur = <<>> THEN acc ELSE Append(acc, cur))
    ELSE IF Head(s) \in Whitespace
         THEN SplitWords(Tail(s), <<>>,
                         IF cur = <<>> THEN acc ELSE Append(acc, cur))
         ELSE SplitWords(Tail(s), Append(cur, Head(s)), acc)

\* jabberwocky.py line 67: word.strip('-')
RECURSIVE StripHyphens(_)
StripHyphens(w) ==
    IF w = <<>> THEN w
    ELSE IF Head(w) = "-" THEN StripHyphens(Tail(w))
    ELSE IF w[Len(w)] = "-" THEN StripHyphens(SubSeq(w, 1, Len(w) - 1))
    ELSE w

\* Words as long as the context are kept too
LongEnough_AtLeastContext(w) ==
    Len(w) >= CONTEXT_SIZE

\* jabberwocky.py line 68: words no longer than the context are dropped
LongEnough(w) ==
    Len(w) > CONTEXT_SIZE

\* jabberwocky.py lines 65-70: strip, drop short words, drop repeats
RECURSIVE CollectWords(_, _)
CollectWords(raw, acc) ==
    IF raw = <<>> THEN acc
    ELSE LET w == StripHyphens(Head(raw))
         IN  CollectWords(Tail(raw),
                          IF LongEnough(w) /\ w \notin Range(acc)
                          THEN Append(acc, w) ELSE acc)

\* jabberwocky.py lines 34-76: parse_words; None when no book is stored
parse_words(text) ==
    IF text = None THEN None
    ELSE Some(CollectWords(
                SplitWords(
                  StripSpecial(CollapseHyphens(LowerAndFix(NFKD(Get(text))), 1)),
                  <<>>, <<>>),
                <<>>))

----------------------------------------------------------------------------
(* generator/jabberwocky.py: build_model, length_distribution *)

\* jabberwocky.py line 94: INITIATOR + word + TERMINATOR
Wrap(w) ==
    <<INITIATOR>> \o w \o <<TERMINATOR>>

\* word[-CONTEXT_SIZE:]: the last CONTEXT_SIZE characters (all, if fewer)
LastContext(w) ==
    SubSeq(w, IF Len(w) > CONTEXT_SIZE THEN Len(w) - CONTEXT_SIZE + 1 ELSE 1,
           Len(w))

\* The positions of the letters only, the terminator left out
Positions_NoTerminator(wl) ==
    UNION {{<<k, i>> : i \in 1..Len(wl[k])} : k \in 1..Len(wl)}

\* jabberwocky.py lines 96-99: the (context, letter) pairs of one word list,
\* one per word k and position i after the initiator
Positions(wl) ==
    UNION {{<<k, i>> : i \in 1..(Len(wl[k]) + 1)} : k \in 1..Len(wl)}

ContextAt(wl, k, i) ==
    LastContext(SubSeq(Wrap(wl[k]), 1, i))

LetterAt(wl, k, i) ==
    Wrap(wl[k])[i + 1]

\* jabberwocky.py lines 89-108: build_model; model[context][letter] is the
\* number of times letter follows context
build_model(wl) ==
    LET contexts == {ContextAt(wl, p[1], p[2]) : p \in Positions(wl)}
        letters(c) == {LetterAt(wl, p[1], p[2]) :
                         p \in {q \in Positions(wl) :
                                  ContextAt(wl, q[1], q[2]) = c}}
    IN  [c \in contexts |->
           [l \in letters(c) |->
              Cardinality({p \in Positions(wl) :
                             /\ ContextAt(wl, p[1], p[2]) = c
                             /\ LetterAt(wl, p[1], p[2]) = l})]]

\* Fixed-point unit of the length table: a float x is held as the integer
\* part of x * Scale.
Scale ==
    100

\* x ** 0.5 of the fraction num/den, in fixed point
SqrtOfShare(num, den) ==
    CHOOSE r \in 0..Scale :
        /\ r * r * den <= num * Scale * Scale
        /\ (r + 1) * (r + 1) * den > num * Scale * Scale

\* jabberwocky.py lines 122-129: the histogram of the word lengths
LengthCount(wl, n) ==
    Cardinality({k \in 1..Len(wl) : Len(wl[k]) = n})

\* max(distribution.keys())
MaxLength(wl) ==
    CHOOSE n \in {Len(wl[k]) : k \in 1..Len(wl)} :
        \A k \in 1..Len(wl) : Len(wl[k]) <= n

\* jabberwocky.py lines 133-139: cumulative[i] for i in 0..n
RECURSIVE Cumulative(_, _)
Cumulative(wl, n) ==
    IF n = 0 THEN <<0>>
    ELSE LET prev == Cumulative(wl, n - 1)
         IN  Append(prev,
                    prev[Len(prev)] +
                    (IF LengthCount(wl, n) > 0
                     THEN SqrtOfShare(LengthCount(wl, n), Len(wl))
                     ELSE 0))

\* jabberwocky.py lines 122-143: length_distribution; the table is a Python
\* list, index 0 first
length_distribution_NotCumulative(wl) ==
    [i \in 1..(MaxLength(wl) + 1) |->
        IF i > 1 /\ LengthCount(wl, i - 1) > 0
        THEN SqrtOfShare(LengthCount(wl, i - 1), Len(wl))
        ELSE 0]

length_distribution(wl) ==
    Cumulative(wl, MaxLength(wl))

\* jabberwocky.py line 135: max() of no lengths raises ValueError
LengthDistributionRaises(wl) ==
    wl = <<>>

----------------------------------------------------------------------------
(* generator/jabberwocky.py: generate_word, generate_words *)

\* jabberwocky.py lines 166-169: the factor of the terminator for a partial
\* word w (initiator included); dist[i + 1] is Python's distribution[i]
TerminatorFactor(dist, w) ==
    IF Len(w) < Len(dist) THEN dist[Len(w) + 1] ELSE dist[Len(dist)]

\* jabberwocky.py lines 162-169: the weights the next character is drawn by
Weights(mdl, dist, w) ==
    LET weights == mdl[LastContext(w)]
    IN  [l \in DOMAIN weights |->
           IF l = TERMINATOR
           THEN weights[l] * TerminatorFactor(dist, w)
           ELSE weights[l] * Scale]

\* random.choices(population, weights): ValueError when the weights sum to
\* zero; otherwise any element of positive weight can be drawn
CanDraw(mdl, dist, w) ==
    {l \in DOMAIN Weights(mdl, dist, w) : Weights(mdl, dist, w)[l] > 0}

\* jabberwocky.py line 172: word.strip(INITIATOR + TERMINATOR)
RECURSIVE StripSentinels(_)
StripSentinels(w) ==
    IF w = <<>> THEN w
    ELSE IF Head(w) \in {INITIATOR, TERMINATOR} THEN StripSentinels(Tail(w))
    ELSE IF w[Len(w)] \in {INITIATOR, TERMINATOR}
         THEN StripSentinels(SubSeq(w, 1, Len(w) - 1))
    ELSE w

\* jabberwocky.py line 200: the generated word is a word or a repeat
Collides_WordListOnly(w, wl, gen) ==
    w \in Range(wl)

Collides(w, wl, gen) ==
    w \in Range(wl) \/ w \in Range(gen)

\* The books the word generator is run on
\* 'hello world greet' -> hello, world, greet
BookHelloWorldGreet ==
    <<"h","e","l","l","o"," ","w","o","r","l","d"," ","g","r","e","e","t">>

\* 'abxxabc' -> abxxabc
BookRepeat ==
    <<"a","b","x","x","a","b","c">>

\* 'aaa' -> aaa
BookTriple ==
    <<"a","a","a">>

\* 'abc bcd' -> abc, bcd
BookChain ==
    <<"a","b","c"," ","b","c","d">>

\* 'Aba--aba, ab -cab-\no’er' -> aba, cab, o'er
BookMessy ==
    <<"A","b","a","-","-","a","b","a",","," ","a","b"," ","-","c","a","b","-",
      "\n","o","U+2019","e","r">>

\* 'Été a #1$' -> e U+0301 t e U+0301
BookAccent ==
    <<"U+00C9","t","U+00E9"," ","a"," ","#","1","$">>

\* 'a b, to' -> no word
BookShort ==
    <<"a"," ","b",","," ","t","o">>

Books ==
    {BookHelloWorldGreet, BookRepeat, BookTriple, BookChain, BookMessy,
     BookAccent, BookShort}

\* The largest count generate_words is called with
MaxCount ==
    2

\* The longest partial word (initiator included) that is still extended
MaxWordLen ==
    8

\* Every character a model built from one of the books can draw
SampleAlphabet ==
    {TERMINATOR} \cup
    UNION {UNION {Range(w) : w \in Range(Get(parse_words(Some(b))))} :
             b \in Books}

ForgeInit ==
    /\ pc = "gw_parse"
    /\ stages = <<>>
    /\ exc = "none"
    /\ weather = None
    /\ literature = None
    /\ album = None
    /\ attempt = 0
    /\ fetched = None
    /\ evaluation = None
    /\ verdict = None
    /\ book \in {None} \cup {Some(b) : b \in Books}
    /\ albums = None
    /\ selection = None
    /\ synthPrompt = None
    /\ synthCall = "none"
    /\ saved = None
    /\ nFetch = 0
    /\ nAsk = 0
    /\ nSave = 0
    /\ rejected = {}
    /\ accepted = None
    /\ stopped = "no"
    /\ afterStop = 0
    /\ fallback = FALSE
    /\ count \in 0..MaxCount
    /\ wordlist = None
    /\ model = <<>>
    /\ distribution = <<>>
    /\ generated = <<>>
    /\ word = <<>>
    /\ discarded = FALSE
    /\ greeting = None
    /\ tts = "none"
    /\ sent = "none"
    /\ selectCount = 0
    /\ bookLoads = 0
    /\ wordAsks = 0
    /\ albumAsks = <<>>
    /\ artCalls = <<>>
    /\ albumDetails = None
    /\ DeliveryIdle
    /\ PlaybackIdle

\* jabberwocky.py line 187: the WordList parse_words returns for each book
WordListOf ==
    [t \in Books |-> Get(parse_words(Some(t)))]

\* jabberwocky.py line 192: the model build_model returns for each book
ModelOf ==
    [t \in Books |-> build_model(WordListOf[t])]

\* jabberwocky.py line 193: whether length_distribution raises for a book
RaisesOf ==
    [t \in Books |-> LengthDistributionRaises(WordListOf[t])]

\* jabberwocky.py line 193: the table length_distribution returns for each
\* book whose WordList is not empty
DistributionOf ==
    [t \in Books |-> IF RaisesOf[t] THEN <<>>
                     ELSE length_distribution(WordListOf[t])]

\* jabberwocky.py lines 187-193: the book is parsed; without a book None is
\* returned; otherwise the model and the length table are built
GW_Parse ==
    /\ pc = "gw_parse"
    /\ bookLoads' = bookLoads + 1
    /\ wordlist' = IF book = None THEN parse_words(book)
                   ELSE Some(WordListOf[Get(book)])
    /\ pc' = IF book = None THEN "gw_returned_none"
             ELSE IF RaisesOf[Get(book)] THEN "raised"
             ELSE "gw_loop"
    /\ exc' = IF book = None THEN exc
              ELSE IF RaisesOf[Get(book)]
              THEN "ValueError: max() arg is an empty sequence"
              ELSE exc
    /\ model' = IF book = None THEN model ELSE ModelOf[Get(book)]
    /\ distribution' = IF book = None THEN distribution
                       ELSE DistributionOf[Get(book)]
    /\ UNCHANGED <<stages, weather, literature, album, attempt, fetched,
                   evaluation, verdict, book, albums, selection,
                   synthPrompt, synthCall, saved, nFetch, nAsk, nSave,
                   rejected, accepted, stopped, afterStop, fallback, count,
                   generated, word, discarded, greeting, tts, sent,
                   selectCount, wordAsks, albumAsks, artCalls,
                   albumDetails, maxRetries, posts, sendResult,
                   greetingFile, songUrlsFile, request, status, nRequests,
                   today, flagFiles, greetingDir, playing, plays,
                   scheduleFile, flagFaults>>

\* jabberwocky.py lines 197-198 and 206: the loop test; a call of
\* generate_word starts from the initiator, or the list is returned
GW_Loop ==
    /\ pc = "gw_loop"
    /\ IF Len(generated) < count
       THEN /\ word' = <<INITIATOR>>
            /\ pc' = "gw_sample"
       ELSE /\ word' = word
            /\ pc' = "gw_returned"
    /\ UNCHANGED <<stages, exc, weather, literature, album, attempt,
                   fetched, evaluation, verdict, book, albums, selection,
                   synthPrompt, synthCall, saved, nFetch, nAsk, nSave,
                   rejected, accepted, stopped, afterStop, fallback, count,
                   wordlist, model, distribution, generated, discarded,
                   greeting, tts, sent, selectCount, bookLoads, wordAsks,
                   albumAsks, artCalls, albumDetails, maxRetries, posts,
                   sendResult, greetingFile, songUrlsFile, request, status,
                   nRequests, today, flagFiles, greetingDir, playing,
                   plays, scheduleFile, flagFaults>>

\* jabberwocky.py lines 161-170: one character is drawn and appended
GW_Sample(l) ==
    /\ pc = "gw_sample"
    /\ LastContext(word) \in DOMAIN model
    /\ l \in CanDraw(model, distribution, word)
    /\ l # TERMINATOR => Len(word) < MaxWordLen
    /\ word' = Append(word, l)
    /\ pc' = IF l = TERMINATOR THEN "gw_check" ELSE "gw_sample"
    /\ UNCHANGED <<stages, exc, weather, literature, album, attempt,
                   fetched, evaluation, verdict, book, albums, selection,
                   synthPrompt, synthCall, saved, nFetch, nAsk, nSave,
                   rejected, accepted, stopped, afterStop, fallback, count,
                   wordlist, model, distribution, generated, discarded,
                   greeting, tts, sent, selectCount, bookLoads, wordAsks,
                   albumAsks, artCalls, albumDetails, maxRetries, posts,
                   sendResult, greetingFile, songUrlsFile, request, status,
                   nRequests, today, flagFiles, greetingDir, playing,
                   plays, scheduleFile, flagFaults>>

\* jabberwocky.py lines 163 and 170: model[context] of an unknown context
\* raises KeyError; random.choices raises ValueError when no candidate has
\* a positive weight
GW_SampleRaises ==
    /\ pc = "gw_sample"
    /\ IF LastContext(word) \in DOMAIN model
       THEN CanDraw(model, distribution, word) = {}
       ELSE TRUE
    /\ exc' = IF LastContext(word) \in DOMAIN model
              THEN "ValueError: Total of weights must be greater than zero"
              ELSE "KeyError"
    /\ pc' = "raised"
    /\ UNCHANGED <<stages, weather, literature, album, attempt, fetched,
                   evaluation, verdict, book, albums, selection,
                   synthPrompt, synthCall, saved, nFetch, nAsk, nSave,
                   rejected, accepted, stopped, afterStop, fallback, count,
                   wordlist, model, distribution, generated, word,
                   discarded, greeting, tts, sent, selectCount, bookLoads,
                   wordAsks, albumAsks, artCalls, albumDetails, maxRetries,
                   posts, sendResult, greetingFile, songUrlsFile, request,
                   status, nRequests, today, flagFiles, greetingDir,
                   playing, plays, scheduleFile, flagFaults>>

\* jabberwocky.py lines 172 and 198-204: the sentinels are stripped; a word
\* of the WordList or a repeat is discarded, any other word is added
GW_Check ==
    /\ pc = "gw_check"
    /\ IF Collides(StripSentinels(word), Get(wordlist), generated)
       THEN /\ generated' = generated
            /\ discarded' = TRUE
       ELSE /\ generated' = Append(generated, StripSentinels(word))
            /\ discarded' = discarded
    /\ word' = <<>>
    /\ pc' = "gw_loop"
    /\ UNCHANGED <<stages, exc, weather, literature, album, attempt,
                   fetched, evaluation, verdict, book, albums, selection,
                   synthPrompt, synthCall, saved, nFetch, nAsk, nSave,
                   rejected, accepted, stopped, afterStop, fallback, count,
                   wordlist, model, distribution, greeting, tts, sent,
                   selectCount, bookLoads, wordAsks, albumAsks, artCalls,
                   albumDetails, maxRetries, posts, sendResult,
                   greetingFile, songUrlsFile, request, status, nRequests,
                   today, flagFiles, greetingDir, playing, plays,
                   scheduleFile, flagFaults>>

ForgeNext ==
    \/ GW_Parse
    \/ GW_Loop
    \/ \E l \in SampleAlphabet : GW_Sample(l)
    \/ GW_SampleRaises
    \/ GW_Check

SpecForge ==
    ForgeInit /\ [][ForgeNext]_vars

\* The loops keep running, and random.choices draws a candidate of positive
\* weight with positive probability: a character that can be drawn again
\* and again is drawn, so a call of generate_word does not sample forever.
FairForge ==
    /\ SpecForge
    /\ WF_vars(ForgeNext)
    /\ \A l \in SampleAlphabet : SF_vars(GW_Sample(l))

----------------------------------------------------------------------------
(* Claims about the word generator *)

\* C4: the words generate_words has collected are never words of the
\* WordList and never repeat (a colliding word is discarded, not added),
\* and the list it returns has exactly count entries.
C4_BatchIsNewAndDistinct ==
    /\ \A i \in 1..Len(generated) :
          /\ generated[i] \notin Range(Get(wordlist))
          /\ \A j \in 1..Len(generated) :
                generated[i] = generated[j] => i = j
    /\ pc = "gw_returned" => Len(generated) = count

\* C4 witness: a list of at least two words was returned after a colliding
\* word had been discarded.
C4_Witness ==
    /\ pc = "gw_returned"
    /\ Len(generated) >= 2
    /\ Len(generated) = count
    /\ discarded

\* C5: for the WordList hello, world, greet, generate_words(2) returns, and
\* returns exactly 2 strings, none of them hello, world or greet.
C5_HelloWorldGreetBatchReturns ==
    (book = Some(BookHelloWorldGreet) /\ count = 2)
    ~> ( /\ pc = "gw_returned"
         /\ Len(generated) = 2
         /\ \A i \in 1..Len(generated) :
               generated[i] \notin Range(Get(wordlist)) )

\* C6: a call of generate_word on a model and a length table built from
\* the same non-empty WordList ends by drawing the terminator and returning
\* a word: it never ends inside the sampling loop.
C6_GenerateWordReturnsAWord ==
    ~(pc = "raised" /\ word # <<>>)

----------------------------------------------------------------------------
(* main() from the synthesis stage on, for any weather, literature, album *)

\* The literature records synthesize_materials can be given: None, the
\* record validate_literature returned, and that record after select_words
\* stored its selection under 'jabberwocky' (pipeline.py line 145)
ComposeLiterature ==
    {None,
     Some([excerpt |-> 1, keys |-> LiteratureKeys, jabberwocky |-> <<>>]),
     Some([excerpt |-> 1, keys |-> LiteratureKeys \cup {"jabberwocky"},
           jabberwocky |-> <<>>]),
     Some([excerpt |-> 1, keys |-> LiteratureKeys \cup {"jabberwocky"},
           jabberwocky |-> << <<"b", "c">> >>])}

\* The albums analyze_album_art leaves behind (pipeline.py lines 239-266):
\* None, an album whose details were unavailable, one without cover art,
\* one with a description
ComposeAlbums ==
    {None} \cup
    {Some([id |-> 1, keys |-> AlbumKeys \cup {"songs", "coverart"},
           songs |-> d[1], coverart |-> d[2]]) :
       d \in {<<None, None>>, <<Some("tracks"), None>>,
              <<Some("tracks"), Some("description")>>}}

ComposeInit ==
    /\ pc = "synthesize"
    /\ stages = <<>>
    /\ exc = "none"
    /\ weather \in WeatherResults
    /\ literature \in ComposeLiterature
    /\ album \in ComposeAlbums
    /\ attempt = 0
    /\ fetched = None
    /\ evaluation = None
    /\ verdict = None
    /\ book = None
    /\ albums = None
    /\ selection = None
    /\ synthPrompt = None
    /\ synthCall = "none"
    /\ saved = None
    /\ nFetch = 0
    /\ nAsk = 0
    /\ nSave = 0
    /\ rejected = {}
    /\ accepted = None
    /\ stopped = "no"
    /\ afterStop = 0
    /\ fallback = FALSE
    /\ count = 0
    /\ wordlist = None
    /\ model = None
    /\ distribution = None
    /\ generated = <<>>
    /\ word = <<>>
    /\ discarded = FALSE
    /\ greeting = None
    /\ tts = "none"
    /\ sent = "none"
    /\ selectCount = 0
    /\ bookLoads = 0
    /\ wordAsks = 0
    /\ albumAsks = <<>>
    /\ artCalls = <<>>
    /\ albumDetails = None
    /\ DeliveryIdle
    /\ PlaybackIdle

\* pipeline.py lines 373-379: the prompt is sent to the oracle; None is
\* returned if the call fails
SM_Ask ==
    /\ pc = "sm_ask"
    /\ \E r \in SynthOracleResults :
          /\ evaluation' = r
          /\ synthCall' = IF r = None THEN "failed" ELSE "answered"
          /\ pc' = IF r = None THEN "main_check" ELSE "sm_extract"
    /\ UNCHANGED <<stages, exc, weather, literature, album, attempt,
                   fetched, verdict, book, albums, selection, synthPrompt,
                   saved, nFetch, nAsk, nSave, rejected, accepted, stopped,
                   afterStop, fallback, count, wordlist, model,
                   distribution, generated, word, discarded, greeting, tts,
                   sent, selectCount, bookLoads, wordAsks, albumAsks,
                   artCalls, albumDetails, maxRetries, posts, sendResult,
                   greetingFile, songUrlsFile, request, status, nRequests,
                   today, flagFiles, greetingDir, playing, plays,
                   scheduleFile, flagFaults>>

\* pipeline.py lines 381-396: the greeting is taken from the response and
\* returned to main
SM_Extract ==
    /\ pc = "sm_extract"
    /\ greeting' = Some(ExtractGreeting(Get(evaluation)))
    /\ pc' = "main_check"
    /\ UNCHANGED <<stages, exc, weather, literature, album, attempt,
                   fetched, evaluation, verdict, book, albums, selection,
                   synthPrompt, synthCall, saved, nFetch, nAsk, nSave,
                   rejected, accepted, stopped, afterStop, fallback, count,
                   wordlist, model, distribution, generated, word,
                   discarded, tts, sent, selectCount, bookLoads, wordAsks,
                   albumAsks, artCalls, albumDetails, maxRetries, posts,
                   sendResult, greetingFile, songUrlsFile, request, status,
                   nRequests, today, flagFiles, greetingDir, playing,
                   plays, scheduleFile, flagFaults>>

\* main.py line 86: if not greeting
Main_Aborts_Never(g) ==
    FALSE

Main_Aborts(g) ==
    IF g = None THEN TRUE ELSE Get(g) = <<>>

\* io_manager.py lines 140-146: the greeting file after save_greeting(g)
SaveGreeting(old, g) ==
    IF g = None THEN old
    ELSE IF Get(g) = <<>> THEN old
    ELSE g

\* main.py lines 86-92: the run is aborted without a greeting, or the
\* greeting is saved
Main_Check ==
    /\ pc = "main_check"
    /\ IF Main_Aborts(greeting)
       THEN /\ pc' = "aborted"
            /\ saved' = saved
       ELSE /\ pc' = "tts"
            /\ saved' = SaveGreeting(saved, greeting)
    /\ UNCHANGED <<stages, exc, weather, literature, album, attempt,
                   fetched, evaluation, verdict, book, albums, selection,
                   synthPrompt, synthCall, nFetch, nAsk, nSave, rejected,
                   accepted, stopped, afterStop, fallback, count, wordlist,
                   model, distribution, generated, word, discarded,
                   greeting, tts, sent, selectCount, bookLoads, wordAsks,
                   albumAsks, artCalls, albumDetails, maxRetries, posts,
                   sendResult, greetingFile, songUrlsFile, request, status,
                   nRequests, today, flagFiles, greetingDir, playing,
                   plays, scheduleFile, flagFaults>>

\* main.py lines 96-98 and 106-111: synthesize_greeting returns the path of
\* the audio file, or None
Main_TTS ==
    /\ pc = "tts"
    /\ \E r \in {"ok", "failed"} :
          /\ tts' = r
          /\ pc' = IF r = "ok" THEN "send" ELSE "done"
    /\ UNCHANGED <<stages, exc, weather, literature, album, attempt,
                   fetched, evaluation, verdict, book, albums, selection,
                   synthPrompt, synthCall, saved, nFetch, nAsk, nSave,
                   rejected, accepted, stopped, afterStop, fallback, count,
                   wordlist, model, distribution, generated, word,
                   discarded, greeting, sent, selectCount, bookLoads,
                   wordAsks, albumAsks, artCalls, albumDetails, maxRetries,
                   posts, sendResult, greetingFile, songUrlsFile, request,
                   status, nRequests, today, flagFiles, greetingDir,
                   playing, plays, scheduleFile, flagFaults>>

\* main.py lines 101-111: send_to_playback_server returns True or False
Main_Send ==
    /\ pc = "send"
    /\ \E r \in {"ok", "failed"} : sent' = r
    /\ pc' = "done"
    /\ UNCHANGED <<stages, exc, weather, literature, album, attempt,
                   fetched, evaluation, verdict, book, albums, selection,
                   synthPrompt, synthCall, saved, nFetch, nAsk, nSave,
                   rejected, accepted, stopped, afterStop, fallback, count,
                   wordlist, model, distribution, generated, word,
                   discarded, greeting, tts, selectCount, bookLoads,
                   wordAsks, albumAsks, artCalls, albumDetails, maxRetries,
                   posts, sendResult, greetingFile, songUrlsFile, request,
                   status, nRequests, today, flagFiles, greetingDir,
                   playing, plays, scheduleFile, flagFaults>>

ComposeNext ==
    \/ SM_Build
    \/ SM_Ask
    \/ SM_Extract
    \/ Main_Check
    \/ Main_TTS
    \/ Main_Send

SpecCompose ==
    ComposeInit /\ [][ComposeNext]_vars

----------------------------------------------------------------------------
(* select_words (generator/pipeline.py) *)

\* pipeline.py line 23
MESSAGE_MEAN_LEN ==
    140

\* The greeting lengths select_words is called with: the default, and two
\* short ones that ask for no word and for one word
GreetingLengths ==
    {1, 4, MESSAGE_MEAN_LEN}

\* pipeline.py line 94: int(0.5 * (greeting_length ** 0.5))
SelectCountOf(len) ==
    CHOOSE k \in 0..len : 4 * k * k <= len /\ len < 4 * (k + 1) * (k + 1)

\* pipeline.py line 95: generate_count = select_count * 3
GenerateCountOf(len) ==
    SelectCountOf(len) * 3

\* pipeline.py line 88: if not literature
SW_Skips_Never(l) ==
    FALSE

SW_Skips(l) ==
    l = None

\* "\n".join(ws)
RECURSIVE JoinLines(_)
JoinLines(ws) ==
    IF ws = <<>> THEN <<>>
    ELSE IF Len(ws) = 1 THEN ws[1]
    ELSE ws[1] \o <<"\n">> \o JoinLines(Tail(ws))

\* The texts the oracle may answer the selection prompt with, for the
\* candidates gen: the first candidate; the first two, padded with spaces;
\* a numbered first candidate; a word that is no candidate, then the last
\* candidate, then the first; the first candidate twice; blank lines;
\* nothing
WordResponses(gen) ==
    {gen[1],
     JoinLines(<< <<" ">> \o gen[1] \o <<" ">>, gen[Len(gen)] \o <<" ">> >>),
     <<"1", ".", " ">> \o gen[1],
     JoinLines(<< <<"z", "z", "z">>, gen[Len(gen)], gen[1] >>)
        \o <<"\n">>,
     JoinLines(<<gen[1], gen[1]>>),
     <<"\n", " ", "\n">>,
     <<>>}

\* s.split('\n')
RECURSIVE SplitLines(_, _, _)
SplitLines(s, cur, acc) ==
    IF s = <<>> THEN Append(acc, cur)
    ELSE IF Head(s) = "\n" THEN SplitLines(Tail(s), <<>>, Append(acc, cur))
    ELSE SplitLines(Tail(s), Append(cur, Head(s)), acc)

\* pipeline.py line 133: a line is kept if it is a candidate
SW_Keeps_AnyWord(w, gen) ==
    w # <<>>

SW_Keeps(w, gen) ==
    w # <<>> /\ w \in Range(gen)

\* pipeline.py lines 130-136: the stripped lines of the stripped response
\* that are candidates, in the order of the response
RECURSIVE KeepLines(_, _)
KeepLines(lines, gen) ==
    IF lines = <<>> THEN <<>>
    ELSE IF SW_Keeps(Strip(Head(lines)), gen)
    THEN <<Strip(Head(lines))>> \o KeepLines(Tail(lines), gen)
    ELSE KeepLines(Tail(lines), gen)

SelectedWords(resp, gen) ==
    KeepLines(SplitLines(Strip(resp), <<>>, <<>>), gen)

\* min(select_count, len(generated_words))
SampleSize(sel, gen) ==
    IF sel < Len(gen) THEN sel ELSE Len(gen)

\* pipeline.py line 140: random.sample(generated_words, k): k candidates
\* from different positions, in any order
Samples(gen, k) ==
    {[i \in 1..k |-> gen[f[i]]] :
        f \in {g \in [1..k -> 1..Len(gen)] :
                 \A i \in 1..k : \A j \in 1..k : g[i] = g[j] => i = j}}

\* The literature records select_words is called with
WordsLiterature ==
    {None, Some([excerpt |-> 1, keys |-> LiteratureKeys,
                 jabberwocky |-> <<>>])}

WordsInit ==
    /\ pc = "select_words"
    /\ stages = <<>>
    /\ exc = "none"
    /\ weather = None
    /\ literature \in WordsLiterature
    /\ album = None
    /\ attempt = 0
    /\ fetched = None
    /\ evaluation = None
    /\ verdict = None
    /\ book \in {None} \cup {Some(t) : t \in Books}
    /\ albums = None
    /\ selection = None
    /\ synthPrompt = None
    /\ synthCall = "none"
    /\ saved = None
    /\ nFetch = 0
    /\ nAsk = 0
    /\ nSave = 0
    /\ rejected = {}
    /\ accepted = None
    /\ stopped = "no"
    /\ afterStop = 0
    /\ fallback = FALSE
    /\ count = 0
    /\ wordlist = None
    /\ model = None
    /\ distribution = None
    /\ generated = <<>>
    /\ word = <<>>
    /\ discarded = FALSE
    /\ greeting = None
    /\ tts = "none"
    /\ sent = "none"
    /\ selectCount = 0
    /\ bookLoads = 0
    /\ wordAsks = 0
    /\ albumAsks = <<>>
    /\ artCalls = <<>>
    /\ albumDetails = None
    /\ DeliveryIdle
    /\ PlaybackIdle

\* pipeline.py lines 87-98: without literature select_words returns at
\* once; otherwise it works out the counts and calls generate_words
SW_Start ==
    /\ pc = "select_words"
    /\ stages' = Append(stages, "words")
    /\ IF SW_Skips(literature)
       THEN /\ pc' = "sw_returned"
            /\ selectCount' = selectCount
            /\ count' = count
       ELSE \E len \in GreetingLengths :
               /\ selectCount' = SelectCountOf(len)
               /\ count' = GenerateCountOf(len)
               /\ pc' = "gw_parse"
    /\ UNCHANGED <<exc, weather, literature, album, attempt, fetched,
                   evaluation, verdict, book, albums, selection,
                   synthPrompt, synthCall, saved, nFetch, nAsk, nSave,
                   rejected, accepted, stopped, afterStop, fallback,
                   wordlist, model, distribution, generated, word,
                   discarded, greeting, tts, sent, bookLoads, wordAsks,
                   albumAsks, artCalls, albumDetails, maxRetries, posts,
                   sendResult, greetingFile, songUrlsFile, request, status,
                   nRequests, today, flagFiles, greetingDir, playing,
                   plays, scheduleFile, flagFaults>>

\* pipeline.py lines 98-127: generate_words has returned; without
\* candidates select_words returns, otherwise it asks the oracle once and
\* returns if the call fails.  The prompt is built with format_literature
\* (formatters.py lines 33-51) and format_jabberwocky, which pipeline.py
\* imports (line 19) but which is not among the sources; both are taken to
\* return text for a literature record and a list of words.
SW_Ask ==
    /\ pc \in {"gw_returned", "gw_returned_none"}
    /\ IF generated = <<>>
       THEN /\ pc' = "sw_returned"
            /\ wordAsks' = wordAsks
            /\ evaluation' = evaluation
       ELSE /\ wordAsks' = wordAsks + 1
            /\ \E r \in {None} \cup {Some(t) : t \in WordResponses(generated)} :
                  /\ evaluation' = r
                  /\ pc' = IF r = None THEN "sw_returned" ELSE "sw_parse"
    /\ UNCHANGED <<stages, exc, weather, literature, album, attempt,
                   fetched, verdict, book, albums, selection, synthPrompt,
                   synthCall, saved, nFetch, nAsk, nSave, rejected,
                   accepted, stopped, afterStop, fallback, count, wordlist,
                   model, distribution, generated, word, discarded,
                   greeting, tts, sent, selectCount, bookLoads, albumAsks,
                   artCalls, albumDetails, maxRetries, posts, sendResult,
                   greetingFile, songUrlsFile, request, status, nRequests,
                   today, flagFiles, greetingDir, playing, plays,
                   scheduleFile, flagFaults>>

\* pipeline.py lines 129-145: the selection is read off the response, or
\* drawn at random when the response names no candidate, and recorded on
\* the literature
SW_Parse ==
    /\ pc = "sw_parse"
    /\ \E sample \in Samples(generated, SampleSize(selectCount, generated)) :
          literature' =
             Some([Get(literature) EXCEPT
                     !.keys = @ \cup {"jabberwocky"},
                     !.jabberwocky =
                        IF SelectedWords(Get(evaluation), generated) = <<>>
                        THEN sample
                        ELSE SelectedWords(Get(evaluation), generated)])
    /\ pc' = "sw_returned"
    /\ UNCHANGED <<stages, exc, weather, album, attempt, fetched,
                   evaluation, verdict, book, albums, selection,
                   synthPrompt, synthCall, saved, nFetch, nAsk, nSave,
                   rejected, accepted, stopped, afterStop, fallback, count,
                   wordlist, model, distribution, generated, word,
                   discarded, greeting, tts, sent, selectCount, bookLoads,
                   wordAsks, albumAsks, artCalls, albumDetails, maxRetries,
                   posts, sendResult, greetingFile, songUrlsFile, request,
                   status, nRequests, today, flagFiles, greetingDir,
                   playing, plays, scheduleFile, flagFaults>>

WordsNext ==
    \/ SW_Start
    \/ GW_Parse
    \/ GW_Loop
    \/ \E l \in SampleAlphabet : GW_Sample(l)
    \/ GW_SampleRaises
    \/ GW_Check
    \/ SW_Ask
    \/ SW_Parse

SpecWords ==
    WordsInit /\ [][WordsNext]_vars

----------------------------------------------------------------------------
(* Claims about the album stages *)

\* C17: analyze_album_art makes no external call when the album is null,
\* makes only the details fetch (no vision-oracle call) when the details or
\* the cover art are unavailable, and makes exactly one vision-oracle call
\* otherwise; it never raises, and after a failed vision call the cover-art
\* description is null and the run is at the next stage.
C17_ArtCallsFollowAvailability ==
    /\ pc = "aa_vision" => artCalls = <<"details">>
    /\ pc = "raised" => stages[Len(stages)] # "art"
    /\ pc = "synthesize" =>
          IF album = None
          THEN artCalls = <<>>
          ELSE IF albumDetails = None
          THEN /\ artCalls = <<"details">>
               /\ Get(album).coverart = None
          ELSE IF Get(albumDetails).coverart = None
          THEN /\ artCalls = <<"details">>
               /\ Get(album).coverart = None
          ELSE artCalls = <<"details", "vision">>

\* C17 witness: the one vision-oracle call was made and failed, the
\* description is null and the run has reached the synthesis stage.
C17_Witness ==
    /\ pc = "synthesize"
    /\ album # None
    /\ artCalls = <<"details", "vision">>
    /\ Get(album).coverart = None
    /\ exc = "none"

\* C18: select_album sends no prompt when the candidate fetch is
\* unavailable and then returns null; otherwise it sends exactly one
\* prompt, the pairing prompt when literature is present and the
\* literature-free prompt when it is null; a failed oracle call makes it
\* return null.
C18_SelectAlbumOracleUse ==
    /\ [](/\ pc \in {"select_album", "sa_ask"} => albumAsks = <<>>
          /\ pc \in {"sa_parse", "sa_return"} =>
                albumAsks = <<IF literature # None THEN "pairing"
                              ELSE "free">>
          /\ Len(albumAsks) <= 1
          /\ (pc = "analyze_album_art" /\ albumAsks = <<>>) => album = None)
    /\ [][(pc = "sa_ask" /\ evaluation' = None) =>
             (album' = None /\ pc' = "analyze_album_art")]_vars

\* C18 witness: with no literature the literature-free prompt was sent
\* once, and the oracle's choice was returned.
C18_Witness ==
    /\ pc = "analyze_album_art"
    /\ literature = None
    /\ albumAsks = <<"free">>
    /\ album # None

----------------------------------------------------------------------------
(* Claims about the word generator's source and its length table *)

\* C12: once generate_words has looked at the book, a missing book or an
\* empty WordList makes it return None: it has raised nothing and has
\* generated no word.
C12_RefusesWithoutSource ==
    (pc # "gw_parse" /\ (book = None \/ wordlist = Some(<<>>))) =>
        /\ pc = "gw_returned_none"
        /\ exc = "none"
        /\ generated = <<>>

\* C13: the table built from a non-empty WordList starts with 0, never
\* decreases, and has one entry per length from 0 to the longest word;
\* for a partial word at or beyond the end of the table generate_word takes
\* the last entry as the factor of the terminator.
C13_LengthTableShape ==
    pc \in {"gw_loop", "gw_sample", "gw_check", "gw_returned"} =>
        /\ distribution[1] = 0
        /\ \A i \in 1..Len(distribution) : \A j \in i..Len(distribution) :
              distribution[i] <= distribution[j]
        /\ Len(distribution) = MaxLength(Get(wordlist)) + 1
        /\ Len(word) >= Len(distribution) =>
              TerminatorFactor(distribution, word) =
                 distribution[Len(distribution)]

\* C13 witness: a table with two different positive entries, and a partial
\* word that has grown to the end of it.
C13_Witness ==
    /\ pc = "gw_sample"
    /\ Len(word) >= Len(distribution)
    /\ \E i \in 1..Len(distribution) :
          /\ 0 < distribution[i]
          /\ distribution[i] < distribution[Len(distribution)]

----------------------------------------------------------------------------
(* Claims about synthesis and what main() does with the greeting *)

\* The marker 'GREETING:' stands at position i of the text, letters
\* compared without regard to case
GreetingMarkerAt(g, i) ==
    /\ i + Len(MarkerGreeting) - 1 <= Len(g)
    /\ \A j \in 1..Len(MarkerGreeting) :
          SameLetter(g[i + j - 1], MarkerGreeting[j])

\* One layer of enclosing double quotes removed
WithoutEnclosingQuotes(s) ==
    IF Len(s) >= 2 /\ Head(s) = "\"" /\ s[Len(s)] = "\""
    THEN SubSeq(s, 2, Len(s) - 1)
    ELSE s

\* The final greeting as stated: everything after the first marker,
\* trimmed and unquoted; the whole response, unmodified, without a marker
StatedGreeting(g) ==
    IF \E i \in 1..Len(g) : GreetingMarkerAt(g, i)
    THEN LET i == CHOOSE i \in 1..Len(g) :
                    /\ GreetingMarkerAt(g, i)
                    /\ \A k \in 1..(i - 1) : ~GreetingMarkerAt(g, k)
         IN  WithoutEnclosingQuotes(
                Strip(SliceFrom(g, i - 1 + Len(MarkerGreeting))))
    ELSE g

\* C11: the greeting synthesize_materials returns for a response is the
\* text after the marker 'GREETING:' (found case-insensitively), trimmed,
\* with one layer of enclosing double quotes removed, and the whole
\* response unmodified when the marker is absent.
C11_GreetingIsTextAfterMarker ==
    greeting # None => Get(greeting) = StatedGreeting(Get(evaluation))

\* C14: text-to-speech and delivery are started only when a non-empty
\* greeting has been saved, and a run aborted at synthesis has saved no
\* greeting and started neither.
C14_SpeechOnlyAfterSavedGreeting ==
    /\ (pc \in {"tts", "send"} \/ tts # "none" \/ sent # "none") =>
          /\ saved # None
          /\ Get(saved) # <<>>
          /\ saved = greeting
    /\ pc = "aborted" =>
          /\ saved = None
          /\ tts = "none"
          /\ sent = "none"

\* C14 witness: the greeting was saved, spoken and delivered.
C14_Witness ==
    /\ pc = "done"
    /\ saved # None
    /\ tts = "ok"
    /\ sent = "ok"

\* The conditional parts a prompt has to hold as stated: block and
\* listener statement of every source that is present, the nonsense-word
\* block when the literature carries word selections
StatedBlocks(w, l, a) ==
    (IF w # None THEN {"weather", "weather listener"} ELSE {})
    \cup (IF l # None THEN {"literature", "literature listener"} ELSE {})
    \cup (IF a # None THEN {"album", "album listener"} ELSE {})
    \cup (IF l = None THEN {}
          ELSE IF "jabberwocky" \in Get(l).keys /\ Get(l).jabberwocky # <<>>
          THEN {"jabberwocky"}
          ELSE {})

\* C19: whatever weather, literature, album and word selections are
\* present, synthesize_materials builds a prompt, and the prompt holds
\* exactly the parts of the sources that are present.
C19_PromptFollowsPresence ==
    "synthesis" \in Range(stages) =>
        /\ exc = "none"
        /\ synthPrompt = Some(StatedBlocks(weather, literature, album))

\* C20: with an album whose details were unavailable (null tracks, null
\* description) the album block is formatted without error, and the
\* greeting is saved when the synthesis oracle answered with one.
C20_NullTracksAreFormatted ==
    ( /\ "synthesis" \in Range(stages)
      /\ album # None
      /\ literature # None )
    => IF Get(album).songs = None /\ "jabberwocky" \in Get(literature).keys
       THEN /\ exc = "none"
            /\ pc # "raised"
            /\ (pc = "done" /\ synthCall = "answered") => saved # None
       ELSE TRUE

----------------------------------------------------------------------------
(* Claims about select_words *)

\* C15: with a null literature select_words asks the oracle nothing, loads
\* no book and generates no word, and its one step changes nothing but
\* the position of the run.
C15_NoLiteratureSkipsWordSelection ==
    /\ [](literature = None =>
             /\ wordAsks = 0
             /\ bookLoads = 0
             /\ wordlist = None
             /\ generated = <<>>
             /\ pc \in {"select_words", "sw_returned"})
    /\ [][(pc = "select_words" /\ literature = None) =>
             /\ pc' = "sw_returned"
             /\ UNCHANGED <<exc, weather, literature, album, book,
                            synthPrompt, saved, forgeVars, greeting, tts,
                            sent, selectCount, bookLoads, wordAsks,
                            deliveryVars, playbackVars>>]_vars

\* C15 witness: select_words has returned from a call without literature
\* although a book was stored.
C15_Witness ==
    /\ pc = "sw_returned"
    /\ literature = None
    /\ book # None
    /\ "words" \in Range(stages)

\* The lines of a response that, trimmed, are candidates
RECURSIVE CandidateLines(_, _)
CandidateLines(lines, gen) ==
    IF lines = <<>> THEN <<>>
    ELSE IF Strip(Head(lines)) \in Range(gen)
    THEN <<Strip(Head(lines))>> \o CandidateLines(Tail(lines), gen)
    ELSE CandidateLines(Tail(lines), gen)

\* C16: the selection select_words records after the oracle answered holds
\* candidates only: the lines of the response that, trimmed, equal a
\* candidate, or, when there is no such line, min(select_count, number of
\* candidates) candidates that are all different.
C16_SelectionHoldsOnlyCandidates ==
    (pc = "sw_returned" /\ literature # None /\ evaluation # None) =>
        LET sel   == Get(literature).jabberwocky
            lines == CandidateLines(
                        SplitLines(Get(evaluation), <<>>, <<>>), generated)
        IN  /\ "jabberwocky" \in Get(literature).keys
            /\ \A i \in 1..Len(sel) : sel[i] \in Range(generated)
            /\ IF lines # <<>>
               THEN sel = lines
               ELSE /\ Len(sel) = SampleSize(selectCount, generated)
                    /\ \A i \in 1..Len(sel) : \A j \in 1..Len(sel) :
                          sel[i] = sel[j] => i = j

\* C16 witness: two candidates were taken from a response that also held a
\* line that is no candidate.
C16_Witness ==
    /\ pc = "sw_returned"
    /\ literature # None
    /\ evaluation # None
    /\ Len(Get(literature).jabberwocky) = 2
    /\ Contains(Get(evaluation), <<"z", "z", "z">>)

----------------------------------------------------------------------------
(* Claims about the words and the later stages *)

\* The album block can be formatted: there is no album, or its tracks
\* are known
FormatAlbumErrorFree ==
    IF album = None THEN TRUE ELSE Get(album).songs # None

\* C21: synthesize_materials, given a literature record on which
\* select_words stored no selection (the record has no 'jabberwocky'
\* entry), raises nothing and builds a prompt without the nonsense-word
\* block, which is sent to the oracle.
C21_SynthesisAfterNoSelection ==
    ( /\ "synthesis" \in Range(stages)
      /\ literature # None
      /\ FormatAlbumErrorFree )
    => IF "jabberwocky" \notin Get(literature).keys
       THEN /\ exc = "none"
            /\ pc # "raised"
            /\ synthPrompt # None
            /\ "jabberwocky" \notin Get(synthPrompt)
       ELSE TRUE

----------------------------------------------------------------------------
(* Claims about the sampling steps of generate_word *)

\* C22: at every sampling step of generate_word on a model and a length
\* table built from the same non-empty WordList, some candidate next
\* character has a positive weight after the terminator's weight was
\* multiplied by the length factor.
C22_TotalWeightPositive ==
    ( /\ pc = "gw_sample"
      /\ Get(wordlist) # <<>>
      /\ LastContext(word) \in DOMAIN model )
    => CanDraw(model, distribution, word) # {}

\* C23: at every sampling step of generate_word on a model built from a
\* non-empty WordList the context looked up (the last CONTEXT_SIZE
\* characters of the partial word, the initiator alone at the first step)
\* is a key of the model, and no call ends with a failed lookup.
C23_ContextIsAKey ==
    /\ (pc = "gw_sample" /\ Get(wordlist) # <<>>) =>
          /\ LastContext(word) \in DOMAIN model
          /\ Len(word) = 1 => LastContext(word) = <<INITIATOR>>
          /\ Len(word) > 1 => Len(LastContext(word)) = CONTEXT_SIZE
    /\ exc # "KeyError"

\* C23 witness: a context that is no beginning of a word of the WordList
\* is looked up in the model built from 'abc bcd' (after '#abcd' the
\* context is 'cd').
C23_Witness ==
    /\ pc = "gw_sample"
    /\ book = Some(BookChain)
    /\ word = <<INITIATOR, "a", "b", "c", "d">>

----------------------------------------------------------------------------
(* Claims about the stored source text *)

\* The positions of a run inside validate_literature
ValidationSteps ==
    {"vl_fetch", "vl_ask", "vl_verdict", "vl_accept", "vl_next",
     "vl_return_none"}

\* validate_literature has returned to main
ValidationReturned ==
    "literature" \in Range(stages) /\ pc \notin ValidationSteps

\* C24: validate_literature stores source text at most once, in the step
\* that follows an affirmative verdict and returns the excerpt; once it
\* has returned, text is stored exactly when the excerpt returned is not
\* null, and it is the source text fetched together with that excerpt; a
\* call that returns null has stored nothing, and no stored text belongs
\* to a rejected excerpt.
C24_SourceTextStoredOnAcceptance ==
    /\ [](/\ nSave <= 1
          /\ ~ValidationReturned => (nSave = 0 /\ book = None)
          /\ ValidationReturned =>
                IF literature = None
                THEN nSave = 0 /\ book = None
                ELSE /\ nSave = 1
                     /\ book = Some(Get(literature).excerpt)
                     /\ Get(book) \notin rejected)
    /\ [][nSave' # nSave =>
             /\ pc = "vl_accept"
             /\ verdict = Some(TRUE)
             /\ nSave' = nSave + 1
             /\ book' = Some(Get(fetched).text)
             /\ literature' = Some(Get(fetched).literature)]_vars

\* C24 witness: an excerpt was rejected, a later one was accepted and
\* returned, and its source text is stored.
C24_Witness ==
    /\ ValidationReturned
    /\ literature # None
    /\ rejected # {}
    /\ nSave = 1
    /\ book # None

----------------------------------------------------------------------------
(* generator/tts.py: send_to_playback_server, for any retry budget *)

\* The generator's variables while the playback side is looked at: no run
\* of main() has started
PipelineIdle ==
    /\ stages = <<>>
    /\ exc = "none"
    /\ weather = None
    /\ literature = None
    /\ album = None
    /\ attempt = 0
    /\ fetched = None
    /\ evaluation = None
    /\ verdict = None
    /\ book = None
    /\ albums = None
    /\ selection = None
    /\ synthPrompt = None
    /\ synthCall = "none"
    /\ saved = None
    /\ nFetch = 0
    /\ nAsk = 0
    /\ nSave = 0
    /\ rejected = {}
    /\ accepted = None
    /\ stopped = "no"
    /\ afterStop = 0
    /\ fallback = FALSE
    /\ count = 0
    /\ wordlist = None
    /\ model = None
    /\ distribution = None
    /\ generated = <<>>
    /\ word = <<>>
    /\ discarded = FALSE
    /\ greeting = None
    /\ tts = "none"
    /\ sent = "none"
    /\ selectCount = 0
    /\ bookLoads = 0
    /\ wordAsks = 0
    /\ albumAsks = <<>>
    /\ artCalls = <<>>
    /\ albumDetails = None

\* tts.py line 71: max_retries=5
DefaultMaxRetries ==
    5

\* The retry budgets send_to_playback_server is called with
RetryBudgets ==
    0..DefaultMaxRetries

\* What one pass of the loop at tts.py lines 96-135 can meet: open() fails
\* before anything is posted, the POST is answered with a status, or it
\* raises Timeout, ConnectionError or another exception
PostOutcomes ==
    {[kind |-> "response", status |-> c] : c \in {200, 302, 400, 404, 499,
                                                  500, 503}}
    \cup {[kind |-> k, status |-> 0] :
            k \in {"timeout", "connection_error", "exception", "open_error"}}

\* tts.py line 119: response.status_code == 200
SP_Succeeds(o) ==
    o.kind = "response" /\ o.status = 200

\* Every error status ends the loop
SP_GivesUp_AnyError(o) ==
    o.kind = "response" /\ 400 <= o.status

\* tts.py line 125: 400 <= response.status_code < 500
SP_GivesUp(o) ==
    o.kind = "response" /\ 400 <= o.status /\ o.status < 500

SendInit ==
    /\ pc = "send"
    /\ PipelineIdle
    /\ maxRetries \in RetryBudgets
    /\ posts = <<>>
    /\ sendResult = None
    /\ greetingFile = None
    /\ songUrlsFile = None
    /\ request = None
    /\ status = 0
    /\ nRequests = 0
    /\ PlaybackIdle

\* tts.py lines 83-96: without the audio file False is returned at once;
\* otherwise the loop starts with attempt 1
SP_Start ==
    /\ pc = "send"
    /\ \E exists \in BOOLEAN :
          IF exists
          THEN /\ attempt' = 1
               /\ sendResult' = sendResult
               /\ pc' = "send_post"
          ELSE /\ attempt' = attempt
               /\ sendResult' = Some(FALSE)
               /\ pc' = "send_returned"
    /\ UNCHANGED <<stages, exc, weather, literature, album, fetched,
                   evaluation, verdict, book, albums, selection,
                   synthPrompt, synthCall, saved, nFetch, nAsk, nSave,
                   rejected, accepted, stopped, afterStop, fallback, count,
                   wordlist, model, distribution, generated, word,
                   discarded, greeting, tts, sent, selectCount, bookLoads,
                   wordAsks, albumAsks, artCalls, albumDetails, maxRetries,
                   posts, greetingFile, songUrlsFile, request, status,
                   nRequests, today, flagFiles, greetingDir, playing,
                   plays, scheduleFile, flagFaults>>

\* tts.py lines 96-135: one pass of the loop.  A response with status 200
\* returns True, one with a 4xx status returns False, anything else leads
\* to the next pass
SP_Post ==
    /\ pc = "send_post"
    /\ attempt <= maxRetries
    /\ \E o \in PostOutcomes :
          /\ posts' = IF o.kind = "open_error" THEN posts
                      ELSE Append(posts, o)
          /\ IF SP_Succeeds(o)
             THEN /\ sendResult' = Some(TRUE)
                  /\ attempt' = attempt
                  /\ pc' = "send_returned"
             ELSE IF SP_GivesUp(o)
             THEN /\ sendResult' = Some(FALSE)
                  /\ attempt' = attempt
                  /\ pc' = "send_returned"
             ELSE /\ sendResult' = sendResult
                  /\ attempt' = attempt + 1
                  /\ pc' = "send_post"
    /\ UNCHANGED <<stages, exc, weather, literature, album, fetched,
                   evaluation, verdict, book, albums, selection,
                   synthPrompt, synthCall, saved, nFetch, nAsk, nSave,
                   rejected, accepted, stopped, afterStop, fallback, count,
                   wordlist, model, distribution, generated, word,
                   discarded, greeting, tts, sent, selectCount, bookLoads,
                   wordAsks, albumAsks, artCalls, albumDetails, maxRetries,
                   greetingFile, songUrlsFile, request, status, nRequests,
                   today, flagFiles, greetingDir, playing, plays,
                   scheduleFile, flagFaults>>

\* tts.py lines 137-139: every pass failed
SP_Exhausted ==
    /\ pc = "send_post"
    /\ attempt > maxRetries
    /\ sendResult' = Some(FALSE)
    /\ pc' = "send_returned"
    /\ UNCHANGED <<stages, exc, weather, literature, album, attempt,
                   fetched, evaluation, verdict, book, albums, selection,
                   synthPrompt, synthCall, saved, nFetch, nAsk, nSave,
                   rejected, accepted, stopped, afterStop, fallback, count,
                   wordlist, model, distribution, generated, word,
                   discarded, greeting, tts, sent, selectCount, bookLoads,
                   wordAsks, albumAsks, artCalls, albumDetails, maxRetries,
                   posts, greetingFile, songUrlsFile, request, status,
                   nRequests, today, flagFiles, greetingDir, playing,
                   plays, scheduleFile, flagFaults>>

SendNext ==
    \/ SP_Start
    \/ SP_Post
    \/ SP_Exhausted

SpecSend ==
    SendInit /\ [][SendNext]_vars

\* A response with status 200
IsOk(o) ==
    o.kind = "response" /\ o.status = 200

\* A response with a 4xx status
IsClientError(o) ==
    o.kind = "response" /\ o.status \in 400..499

\* A 5xx response, a timeout or a connection error
IsTransient(o) ==
    IF o.kind = "response" THEN o.status \in 500..599
    ELSE o.kind \in {"timeout", "connection_error"}

\* C25: send_to_playback_server(max_retries = N) posts at most N times;
\* no attempt follows a response with status 200 or with a 4xx status;
\* it returns True exactly when the last attempt was answered with 200,
\* and False after a 4xx response; after a 5xx response, a timeout or a
\* connection error it goes on while fewer than N passes were made, and it
\* returns False when all N passes have failed.
C25_BoundedRetries ==
    /\ Len(posts) <= maxRetries
    /\ \A i \in 1..(Len(posts) - 1) :
          ~IsOk(posts[i]) /\ ~IsClientError(posts[i])
    /\ (posts # <<>> /\ IsOk(posts[Len(posts)])) =>
          (pc = "send_returned" /\ sendResult = Some(TRUE))
    /\ (posts # <<>> /\ IsClientError(posts[Len(posts)])) =>
          (pc = "send_returned" /\ sendResult = Some(FALSE))
    /\ sendResult = Some(TRUE) => (posts # <<>> /\ IsOk(posts[Len(posts)]))
    /\ (posts # <<>> /\ IsTransient(posts[Len(posts)])
          /\ pc = "send_returned") =>
          (sendResult = Some(FALSE) /\ attempt > maxRetries)
    /\ (pc = "send_post" /\ attempt > maxRetries) => sendResult = None

\* C25 witness: the third attempt was answered with 200 after a 5xx
\* response and a timeout, and True was returned.
C25_Witness ==
    /\ pc = "send_returned"
    /\ sendResult = Some(TRUE)
    /\ Len(posts) = 3
    /\ posts[1] = [kind |-> "response", status |-> 500]
    /\ posts[2].kind = "timeout"

----------------------------------------------------------------------------
(* greeting-playback/receive_greeting.py: POST /greeting *)

\* The largest number of requests the receiver is sent
MaxRequests ==
    3

\* Two song URLs
SongUrl1 ==
    <<"u", "1">>

SongUrl2 ==
    <<"u", "2">>

\* tts.py lines 89-93: the song URLs of a request: none (no album, or an
\* album without songs), or the URLs of the album's songs
UrlLists ==
    {<<>>, <<SongUrl1>>, <<SongUrl2>>, <<SongUrl1, SongUrl2>>}

\* tts.py lines 108-117: the requests the receiver is sent: the k-th
\* carries audio k (or no audio file, if it comes from elsewhere) and the
\* field song_urls, the URLs joined by newlines
GreetingRequests(k) ==
    {[id |-> k, audio |-> a, urls |-> u, song_urls |-> JoinLines(u)] :
       a \in BOOLEAN, u \in UrlLists}

\* receive_greeting.py line 175: if song_urls
RG_WritesUrls(song_urls) ==
    song_urls # <<>>

\* receive_greeting.py lines 93-140: get_sunrise_time stores the day of the
\* next sunrise (today's, or tomorrow's if today's has passed); an error
\* in the calculation or in the write leaves the file as it was
ScheduleResults(old, day) ==
    {old, Some(day), Some(day + 1)}

ReceiverInit ==
    /\ pc = "receiver"
    /\ PipelineIdle
    /\ DeliveryIdle
    /\ PlaybackIdle

\* receive_greeting.py lines 143-195: the handler of POST /greeting.
\* Without an audio file the answer is 400; an exception (while the audio
\* is saved, or while the URLs are written after the audio was saved) is
\* answered with 500; otherwise the audio replaces the stored greeting,
\* the URLs replace the stored list if the field is not empty, the
\* schedule is written and the answer is 200.
RG_Post ==
    /\ pc = "receiver"
    /\ nRequests < MaxRequests
    /\ nRequests' = nRequests + 1
    /\ \E r \in GreetingRequests(nRequests + 1) :
       \E fails \in {"nothing", "audio", "urls"} :
       \E sched \in ScheduleResults(scheduleFile, today) :
          /\ request' = Some(r)
          /\ IF ~r.audio
             THEN /\ status' = 400
                  /\ greetingFile' = greetingFile
                  /\ songUrlsFile' = songUrlsFile
                  /\ scheduleFile' = scheduleFile
             ELSE IF fails = "audio"
             THEN /\ status' = 500
                  /\ greetingFile' = greetingFile
                  /\ songUrlsFile' = songUrlsFile
                  /\ scheduleFile' = scheduleFile
             ELSE IF fails = "urls" /\ RG_WritesUrls(r.song_urls)
             THEN /\ status' = 500
                  /\ greetingFile' = Some(r.id)
                  /\ songUrlsFile' = songUrlsFile
                  /\ scheduleFile' = scheduleFile
             ELSE /\ status' = 200
                  /\ greetingFile' = Some(r.id)
                  /\ songUrlsFile' = IF RG_WritesUrls(r.song_urls)
                                     THEN Some(r.song_urls)
                                     ELSE songUrlsFile
                  /\ scheduleFile' = sched
    /\ UNCHANGED <<pc, stages, exc, weather, literature, album, attempt,
                   fetched, evaluation, verdict, book, albums, selection,
                   synthPrompt, synthCall, saved, nFetch, nAsk, nSave,
                   rejected, accepted, stopped, afterStop, fallback, count,
                   wordlist, model, distribution, generated, word,
                   discarded, greeting, tts, sent, selectCount, bookLoads,
                   wordAsks, albumAsks, artCalls, albumDetails, maxRetries,
                   posts, sendResult, today, flagFiles, greetingDir,
                   playing, plays, flagFaults>>

ReceiverNext ==
    RG_Post

SpecReceiver ==
    ReceiverInit /\ [][ReceiverNext]_vars

\* The song URLs the receiver holds: the lines of the stored list
StoredSongUrls ==
    IF songUrlsFile = None \/ songUrlsFile = Some(<<>>) THEN <<>>
    ELSE SplitLines(Get(songUrlsFile), <<>>, <<>>)

\* C29: after a POST /greeting answered with 200 the stored greeting is
\* the audio of that request and the stored song URLs are the URLs of
\* that request, also when the request carried none.
C29_StoredUrlsAreTheRequests ==
    status = 200 =>
        /\ greetingFile = Some(Get(request).id)
        /\ StoredSongUrls = Get(request).urls

----------------------------------------------------------------------------
(* Claims about the size of the word selection *)

\* C27: the selection select_words records has at most select_count
\* entries and holds no word twice, whatever the oracle answered.
C27_SelectionBoundedAndDistinct ==
    ( /\ pc = "sw_returned"
      /\ literature # None
      /\ "jabberwocky" \in Get(literature).keys )
    => LET sel == Get(literature).jabberwocky
       IN  /\ Len(sel) <= selectCount
           /\ \A i \in 1..Len(sel) : \A j \in 1..Len(sel) :
                 sel[i] = sel[j] => i = j

----------------------------------------------------------------------------
(* playback/check_sunrise.py and playback/receive_greeting.py: the sunrise *)
(* checker run by cron, the receiver, and the calendar                     *)

\* The last calendar day looked at
MaxDay ==
    3

\* The largest number of playbacks that succeed
MaxPlays ==
    3

\* check_sunrise.py lines 119-140: already_played_today().  Without the
\* flag file, or when it cannot be read, the answer is False; otherwise
\* the stored date is compared with today's
AlreadyPlayedToday_Never(flag, day, readOk) ==
    FALSE

AlreadyPlayedToday(flag, day, readOk) ==
    IF flag = None THEN FALSE
    ELSE IF ~readOk THEN FALSE
    ELSE Get(flag) = day

\* The played flag before the first check: absent, or the date of an
\* earlier day
SunriseInit ==
    /\ pc = "cs_idle"
    /\ PipelineIdle
    /\ DeliveryIdle
    /\ today = 1
    /\ flagFiles \in [FlagPaths -> {None, Some(0)}]
    /\ greetingDir = None
    /\ playing = None
    /\ plays = <<>>
    /\ scheduleFile = None
    /\ flagFaults = FALSE

\* check_sunrise.py lines 216-246: one run of the checker up to the
\* playback: it returns if the greeting was played today, if the sunrise
\* cannot be calculated, outside the window, or without a greeting file
CS_Check ==
    /\ pc = "cs_idle"
    /\ Len(plays) < MaxPlays
    /\ \E readOk \in BOOLEAN :
       \E sunrise \in {"error", "outside", "inside"} :
          /\ flagFaults' = IF flagFiles[PLAYED_FLAG] # None /\ ~readOk
                           THEN TRUE
                           ELSE flagFaults
          /\ IF AlreadyPlayedToday(flagFiles[PLAYED_FLAG], today, readOk)
             THEN /\ playing' = playing
                  /\ pc' = pc
             ELSE IF sunrise = "inside" /\ greetingDir # None
             THEN /\ playing' = greetingDir
                  /\ pc' = "cs_playing"
             ELSE /\ playing' = playing
                  /\ pc' = pc
    /\ UNCHANGED <<stages, exc, weather, literature, album, attempt,
                   fetched, evaluation, verdict, book, albums, selection,
                   synthPrompt, synthCall, saved, nFetch, nAsk, nSave,
                   rejected, accepted, stopped, afterStop, fallback, count,
                   wordlist, model, distribution, generated, word,
                   discarded, greeting, tts, sent, selectCount, bookLoads,
                   wordAsks, albumAsks, artCalls, albumDetails, maxRetries,
                   posts, sendResult, greetingFile, songUrlsFile, request,
                   status, nRequests, today, flagFiles, greetingDir, plays,
                   scheduleFile>>

\* check_sunrise.py lines 181-213 and 248-252: play_greeting; a playback
\* that failed ends the run
CS_Play ==
    /\ pc = "cs_playing"
    /\ \E ok \in BOOLEAN :
          IF ok
          THEN /\ plays' = Append(plays, [day |-> today,
                                          greeting |-> Get(playing)])
               /\ playing' = playing
               /\ pc' = "cs_marking"
          ELSE /\ plays' = plays
               /\ playing' = None
               /\ pc' = "cs_idle"
    /\ UNCHANGED <<stages, exc, weather, literature, album, attempt,
                   fetched, evaluation, verdict, book, albums, selection,
                   synthPrompt, synthCall, saved, nFetch, nAsk, nSave,
                   rejected, accepted, stopped, afterStop, fallback, count,
                   wordlist, model, distribution, generated, word,
                   discarded, greeting, tts, sent, selectCount, bookLoads,
                   wordAsks, albumAsks, artCalls, albumDetails, maxRetries,
                   posts, sendResult, greetingFile, songUrlsFile, request,
                   status, nRequests, today, flagFiles, greetingDir,
                   scheduleFile, flagFaults>>

\* check_sunrise.py lines 143-151: mark_as_played writes today's date; an
\* error is logged and the flag stays as it was
CS_Mark ==
    /\ pc = "cs_marking"
    /\ \E writeOk \in BOOLEAN :
          /\ flagFiles' = IF writeOk
                          THEN [flagFiles EXCEPT ![PLAYED_FLAG] = Some(today)]
                          ELSE flagFiles
          /\ flagFaults' = IF writeOk THEN flagFaults ELSE TRUE
    /\ playing' = None
    /\ pc' = "cs_idle"
    /\ UNCHANGED <<stages, exc, weather, literature, album, attempt,
                   fetched, evaluation, verdict, book, albums, selection,
                   synthPrompt, synthCall, saved, nFetch, nAsk, nSave,
                   rejected, accepted, stopped, afterStop, fallback, count,
                   wordlist, model, distribution, generated, word,
                   discarded, greeting, tts, sent, selectCount, bookLoads,
                   wordAsks, albumAsks, artCalls, albumDetails, maxRetries,
                   posts, sendResult, greetingFile, songUrlsFile, request,
                   status, nRequests, today, greetingDir, plays,
                   scheduleFile>>

\* datetime.now(): the next calendar day begins
Midnight ==
    /\ today < MaxDay
    /\ today' = today + 1
    /\ UNCHANGED <<pc, stages, exc, weather, literature, album, attempt,
                   fetched, evaluation, verdict, book, albums, selection,
                   synthPrompt, synthCall, saved, nFetch, nAsk, nSave,
                   rejected, accepted, stopped, afterStop, fallback, count,
                   wordlist, model, distribution, generated, word,
                   discarded, greeting, tts, sent, selectCount, bookLoads,
                   wordAsks, albumAsks, artCalls, albumDetails, maxRetries,
                   posts, sendResult, greetingFile, songUrlsFile, request,
                   status, nRequests, flagFiles, greetingDir, playing,
                   plays, scheduleFile, flagFaults>>

\* playback/receive_greeting.py lines 105-130: save_sunrise_time writes the
\* schedule and then deletes played_flag if it exists; an error in the
\* write skips the deletion
save_sunrise_time(files, written) ==
    IF written THEN [files EXCEPT ![played_flag] = None] ELSE files

\* playback/receive_greeting.py lines 133-194: the handler of POST
\* /greeting.  A wrong content type or an empty body is answered with
\* 400, an error while the audio is written with 500; otherwise the
\* greeting of the day is stored, tomorrow's sunrise is calculated and,
\* if that succeeded, saved by save_sunrise_time, and the answer is 200.
RG_Receive ==
    /\ nRequests < MaxRequests
    /\ nRequests' = nRequests + 1
    /\ \E body \in {"wrong_type", "empty", "audio"} :
       \E fails \in {"nothing", "audio", "sunrise", "schedule"} :
          /\ request' = Some([id |-> nRequests + 1, audio |-> body = "audio",
                              urls |-> <<>>, song_urls |-> <<>>])
          /\ IF body # "audio"
             THEN /\ status' = 400
                  /\ greetingDir' = greetingDir
                  /\ scheduleFile' = scheduleFile
                  /\ flagFiles' = flagFiles
             ELSE IF fails = "audio"
             THEN /\ status' = 500
                  /\ greetingDir' = greetingDir
                  /\ scheduleFile' = scheduleFile
                  /\ flagFiles' = flagFiles
             ELSE /\ status' = 200
                  /\ greetingDir' = Some(nRequests + 1)
                  /\ scheduleFile' = IF fails = "nothing"
                                     THEN Some(today + 1)
                                     ELSE scheduleFile
                  /\ flagFiles' = save_sunrise_time(flagFiles,
                                                    fails = "nothing")
    /\ UNCHANGED <<pc, stages, exc, weather, literature, album, attempt,
                   fetched, evaluation, verdict, book, albums, selection,
                   synthPrompt, synthCall, saved, nFetch, nAsk, nSave,
                   rejected, accepted, stopped, afterStop, fallback, count,
                   wordlist, model, distribution, generated, word,
                   discarded, greeting, tts, sent, selectCount, bookLoads,
                   wordAsks, albumAsks, artCalls, albumDetails, maxRetries,
                   posts, sendResult, greetingFile, songUrlsFile, today,
                   playing, plays, flagFaults>>

SunriseNext ==
    \/ CS_Check
    \/ CS_Play
    \/ CS_Mark
    \/ Midnight
    \/ RG_Receive

SpecSunrise ==
    SunriseInit /\ [][SunriseNext]_vars

----------------------------------------------------------------------------
(* Claims about the playback side *)

\* The number of playbacks that succeeded on day d
PlaysOn(d) ==
    Cardinality({i \in DOMAIN plays : plays[i].day = d})

C30_NewGreetingResetsPlayed ==
    [][(nRequests' # nRequests /\ status' = 200
          /\ scheduleFile' # scheduleFile) =>
          ~AlreadyPlayedToday(flagFiles'[PLAYED_FLAG], today', TRUE)]_vars

----------------------------------------------------------------------------
(* Claims about parse_words *)

\* The tokens of a text in their order: the text is normalised, split on
\* whitespace, and the hyphens around each token are removed
TokensOf(text) ==
    LET raw == SplitWords(
                 StripSpecial(CollapseHyphens(LowerAndFix(NFKD(text)), 1)),
                 <<>>, <<>>)
    IN  [i \in 1..Len(raw) |-> StripHyphens(raw[i])]

\* The position of the first occurrence of w among the tokens
FirstOccurrence(tokens, w) ==
    CHOOSE i \in 1..Len(tokens) :
        /\ tokens[i] = w
        /\ \A k \in 1..(i - 1) : tokens[k] # w

\* C26: every WordList parse_words returns holds only tokens of the text
\* longer than CONTEXT_SIZE characters, none beginning or ending with a
\* hyphen, none containing the initiator or the terminator, none twice,
\* in the order of their first occurrence in the text; and no such token
\* of the text is missing.
C26_WordListShape ==
    (wordlist # None /\ book # None) =>
        LET wl     == Get(wordlist)
            tokens == TokensOf(Get(book))
        IN  /\ \A i \in 1..Len(wl) :
                  /\ Len(wl[i]) > 2
                  /\ wl[i][1] # "-"
                  /\ wl[i][Len(wl[i])] # "-"
                  /\ "#" \notin Range(wl[i])
                  /\ "$" \notin Range(wl[i])
                  /\ wl[i] \in Range(tokens)
            /\ \A i \in 1..Len(wl) : \A j \in 1..Len(wl) :
                  i < j => FirstOccurrence(tokens, wl[i])
                              < FirstOccurrence(tokens, wl[j])
            /\ \A k \in 1..Len(tokens) :
                  Len(tokens[k]) > 2 => tokens[k] \in Range(wl)

\* C26 witness: the WordList of the book 'Aba--aba, ab -cab-\no’er', which
\* holds a repeated word, a short one, a double hyphen and hyphens around
\* a word, has been parsed.
C26_Witness ==
    /\ book = Some(BookMessy)
    /\ wordlist = Some(<< <<"a", "b", "a">>, <<"c", "a", "b">>,
                          <<"o", "'", "e", "r">> >>)

====
